---- MODULE Spec2Model ----
(***************************************************************************)
(* A model of the pandemic core of abstreet's traffic simulator:          *)
(*   sim/src/pandemic/mod.rs       State, Event, AnyTime                   *)
(*   sim/src/pandemic/pandemic.rs  PandemicModel, Cmd, SharedSpace         *)
(*   sim/src/grid/mod.rs           Grid                                    *)
(* Times and durations are integers (one unit is one polling step         *)
(* delta_t); grid cells are fixed-point numbers in thousandths.  The       *)
(* core's XorShiftRng is a nondeterministic choice over the support of     *)
(* each distribution it samples.                                           *)
(***************************************************************************)
EXTENDS Integers, Sequences, FiniteSets, Bags, TLC

VARIABLES
    initialized,    \* PandemicModel.initialized
    pop,            \* PandemicModel.pop: PersonID -> State
    concentration,  \* PandemicModel.concentration: Grid.data, row-major, 0-based
    bldgs,          \* SharedSpace<BuildingID>.occupants
    sidewalks,      \* SharedSpace<LaneID>.occupants
    remote_bldgs,   \* SharedSpace<OffMapLocation>.occupants
    bus_stops,      \* SharedSpace<BusStopID>.occupants
    buses,          \* SharedSpace<CarID>.occupants
    person_to_bus,  \* PandemicModel.person_to_bus
    scheduler,      \* the host's Scheduler: a bag of [time, cmd]
    now,            \* the host simulator's clock
    fault,          \* "none", or the panic that aborted the program
    last,           \* the call a test or a stale command made last, and what it returned
    nsteps          \* events and commands handled so far

vars == <<initialized, pop, concentration, bldgs, sidewalks, remote_bldgs,
          bus_stops, buses, person_to_bus, scheduler, now, fault, last,
          nsteps>>

ledgers == <<bldgs, sidewalks, remote_bldgs, bus_stops, buses>>

----------------------------------------------------------------------------
(* Bounds of the model *)

MaxTime == 1
MaxSteps == 3
MaxSpaceTime == 2
MaxSpaceOcc == 3

\* the population handed to initialize
Population == <<1, 2>>
Persons == { Population[i] : i \in 1..Len(Population) }
BuildingIDs == {"bldg1"}
LaneIDs == {"lane1"}
OffMapLocations == {"loc1"}
BusStopIDs == {"stop1"}
CarIDs == {"bus1", "bus2"}

----------------------------------------------------------------------------
(* Option<T> *)

None == <<>>
Some(x) == <<x>>
unwrap(o) == o[1]

MaxOf(a, b) == IF a >= b THEN a ELSE b

----------------------------------------------------------------------------
(* geom::Time and AnyTime (mod.rs) *)

START_OF_DAY == 0
INFINITY == 1000000
DURATION_MAX == 1000000

\* impl From<Time> for AnyTime
AnyTime_from(t) == t - START_OF_DAY
\* impl Into<Time> for AnyTime
AnyTime_into(a) == START_OF_DAY + a
\* impl ops::Add<Duration> for AnyTime
AnyTime_add(a, d) == a + d
AnyTime_is_finite(a) == a # INFINITY

----------------------------------------------------------------------------
(* The rng: the support of each distribution, in time units *)

\* rng.gen_bool(n / d): 0 never succeeds, 1 always does; a probability outside
\* [0, 1] makes Bernoulli::new fail and gen_bool panic
gen_bool_panics(n, d) == n < 0 \/ n > d
gen_bool(n, d) == IF n <= 0 THEN {FALSE} ELSE IF n >= d THEN {TRUE} ELSE {TRUE, FALSE}

\* Exp::new(lambda).sample(rng): strictly positive, unbounded above
get_time_exp == {1, MaxTime + 1}

\* Normal::new(mu, sigma).sample(rng): any real, a negative or a positive one
get_time_normal == {0 - 1, 1}

----------------------------------------------------------------------------
(* State and Event (mod.rs) *)

E_RATIO == 20
I_RATIO == 50
P_HOSP_INI == 95
P_DEATH_INI == 5

MkEvent(s, p_hosp, p_death, t) == [s |-> s, p_hosp |-> p_hosp, p_death |-> p_death, t |-> t]
Sane(ev, t) == [tag |-> "Sane", ev |-> ev, time |-> t]
Exposed(ev, t) == [tag |-> "Exposed", ev |-> ev, time |-> t]
Infectious(ev, t) == [tag |-> "Infectious", ev |-> ev, time |-> t]
Hospitalized(ev, t) == [tag |-> "Hospitalized", ev |-> ev, time |-> t]
Recovered(t) == [tag |-> "Recovered", time |-> t]
Dead(t) == [tag |-> "Dead", time |-> t]

Outcome(state, time) == [state |-> state, time |-> time]

\* Event::next drawing the branch at incubation end from p_hosp and the branch
\* at hospitalization from p_death
Event_next_Swapped(ev, t) ==
    CASE ev.s = "Exposition" ->
            { Outcome(Exposed(MkEvent("Incubation", ev.p_hosp, ev.p_death, AnyTime_add(t, d)),
                              AnyTime_into(t)),
                      Some(AnyTime_into(AnyTime_add(t, d)))) : d \in get_time_normal }
      [] ev.s = "Incubation" ->
            { Outcome(Infectious(MkEvent(IF b THEN "Recovery" ELSE "Hospitalization",
                                         ev.p_hosp, ev.p_death, AnyTime_add(t, d)),
                                 AnyTime_into(t)),
                      Some(AnyTime_into(AnyTime_add(t, d))))
                : b \in gen_bool(ev.p_hosp, 100), d \in get_time_normal }
      [] ev.s = "Hospitalization" ->
            { Outcome(Hospitalized(MkEvent(IF b THEN "Recovery" ELSE "Death",
                                           ev.p_hosp, ev.p_death, AnyTime_add(t, d)),
                                   AnyTime_into(t)),
                      Some(AnyTime_into(AnyTime_add(t, d))))
                : b \in gen_bool(ev.p_death, 100), d \in get_time_normal }
      [] ev.s = "Death" -> { Outcome(Dead(AnyTime_into(t)), None) }
      [] ev.s = "Recovery" -> { Outcome(Recovered(AnyTime_into(t)), None) }

\* Event::next ending a Recovery event in Dead
Event_next_NoRecovery(ev, t) ==
    CASE ev.s = "Exposition" ->
            { Outcome(Exposed(MkEvent("Incubation", ev.p_hosp, ev.p_death, AnyTime_add(t, d)),
                              AnyTime_into(t)),
                      Some(AnyTime_into(AnyTime_add(t, d)))) : d \in get_time_normal }
      [] ev.s = "Incubation" ->
            { Outcome(Infectious(MkEvent(IF b THEN "Recovery" ELSE "Hospitalization",
                                         ev.p_hosp, ev.p_death, AnyTime_add(t, d)),
                                 AnyTime_into(t)),
                      Some(AnyTime_into(AnyTime_add(t, d))))
                : b \in gen_bool(ev.p_death, 100), d \in get_time_normal }
      [] ev.s = "Hospitalization" ->
            { Outcome(Hospitalized(MkEvent(IF b THEN "Recovery" ELSE "Death",
                                           ev.p_hosp, ev.p_death, AnyTime_add(t, d)),
                                   AnyTime_into(t)),
                      Some(AnyTime_into(AnyTime_add(t, d))))
                : b \in gen_bool(ev.p_hosp, 100), d \in get_time_normal }
      [] ev.s \in {"Death", "Recovery"} -> { Outcome(Dead(AnyTime_into(t)), None) }

\* Event::next starting the progression again at a Recovery or Death event
Event_next_Again(ev, t) ==
    CASE ev.s \in {"Death", "Recovery"} ->
            { Outcome(Exposed(MkEvent("Incubation", ev.p_hosp, ev.p_death, AnyTime_add(t, d)),
                              AnyTime_into(t)),
                      Some(AnyTime_into(AnyTime_add(t, d)))) : d \in get_time_normal }
      [] ev.s = "Exposition" ->
            { Outcome(Exposed(MkEvent("Incubation", ev.p_hosp, ev.p_death, AnyTime_add(t, d)),
                              AnyTime_into(t)),
                      Some(AnyTime_into(AnyTime_add(t, d)))) : d \in get_time_normal }
      [] ev.s = "Incubation" ->
            { Outcome(Infectious(MkEvent(IF b THEN "Recovery" ELSE "Hospitalization",
                                         ev.p_hosp, ev.p_death, AnyTime_add(t, d)),
                                 AnyTime_into(t)),
                      Some(AnyTime_into(AnyTime_add(t, d))))
                : b \in gen_bool(ev.p_death, 100), d \in get_time_normal }
      [] ev.s = "Hospitalization" ->
            { Outcome(Hospitalized(MkEvent(IF b THEN "Recovery" ELSE "Death",
                                           ev.p_hosp, ev.p_death, AnyTime_add(t, d)),
                                   AnyTime_into(t)),
                      Some(AnyTime_into(AnyTime_add(t, d))))
                : b \in gen_bool(ev.p_hosp, 100), d \in get_time_normal }

\* Event::next: the set of results the rng allows
Event_next(ev, t) ==
    CASE ev.s = "Exposition" ->
            { Outcome(Exposed(MkEvent("Incubation", ev.p_hosp, ev.p_death, AnyTime_add(t, d)),
                              AnyTime_into(t)),
                      Some(AnyTime_into(AnyTime_add(t, d)))) : d \in get_time_normal }
      [] ev.s = "Incubation" ->
            { Outcome(Infectious(MkEvent(IF b THEN "Recovery" ELSE "Hospitalization",
                                         ev.p_hosp, ev.p_death, AnyTime_add(t, d)),
                                 AnyTime_into(t)),
                      Some(AnyTime_into(AnyTime_add(t, d))))
                : b \in gen_bool(ev.p_death, 100), d \in get_time_normal }
      [] ev.s = "Hospitalization" ->
            { Outcome(Hospitalized(MkEvent(IF b THEN "Recovery" ELSE "Death",
                                           ev.p_hosp, ev.p_death, AnyTime_add(t, d)),
                                   AnyTime_into(t)),
                      Some(AnyTime_into(AnyTime_add(t, d))))
                : b \in gen_bool(ev.p_hosp, 100), d \in get_time_normal }
      [] ev.s = "Death" -> { Outcome(Dead(AnyTime_into(t)), None) }
      [] ev.s = "Recovery" -> { Outcome(Recovered(AnyTime_into(t)), None) }

State_new(p_hosp, p_death) ==
    Sane(MkEvent("Exposition", p_hosp, p_death, INFINITY), START_OF_DAY)

HasEvent(state) == state.tag \in {"Sane", "Exposed", "Infectious", "Hospitalized"}

State_is_sane(state) == state.tag = "Sane" /\ ~AnyTime_is_finite(state.ev.t)
State_is_exposed(state) == state.tag = "Exposed"
State_is_infectious(state) == state.tag \in {"Infectious", "Hospitalized"}
State_is_recovered(state) == state.tag = "Recovered"
State_is_dead(state) == state.tag = "Dead"

State_get_event_time(state) == IF HasEvent(state) THEN Some(state.ev.t) ELSE None

State_next_default(state, default) ==
    CASE state.tag = "Sane" ->
            { Outcome(Sane(state.ev, AnyTime_into(default)), Some(AnyTime_into(default))) }
      [] state.tag \in {"Exposed", "Infectious", "Hospitalized"} -> Event_next(state.ev, default)
      [] state.tag = "Recovered" -> { Outcome(Recovered(AnyTime_into(default)), None) }
      [] state.tag = "Dead" -> { Outcome(Dead(AnyTime_into(default)), None) }

\* State::next sending a terminal state back to Sane
State_next_Relapse(state, t) ==
    CASE state.tag = "Sane" -> { Outcome(state, Some(state.time)) }
      [] state.tag \in {"Exposed", "Infectious", "Hospitalized"} -> Event_next(state.ev, t)
      [] state.tag \in {"Recovered", "Dead"} -> { Outcome(State_new(0, 0), None) }

State_next(state, t) ==
    CASE state.tag = "Sane" -> { Outcome(state, Some(state.time)) }
      [] state.tag \in {"Exposed", "Infectious", "Hospitalized"} -> Event_next(state.ev, t)
      [] state.tag \in {"Recovered", "Dead"} -> { Outcome(state, None) }

\* State::start: Ok(results) or Err; Err is the empty set here, the callers unwrap
State_start_is_err(state) == state.tag # "Sane"

\* State::start taking two steps of the progression at once
State_start_Skip(state, t, overlap) ==
    IF state.tag = "Sane"
    THEN UNION { IF overlap >= e
                 THEN UNION { Event_next(o.state.ev, t) : o \in Event_next(state.ev, t) }
                 ELSE { Outcome(state, None) }
                 : e \in get_time_exp }
    ELSE {}

\* State::start stamping the time of a failed trial on the Sane person's event
State_start_Stamp(state, t, overlap) ==
    IF state.tag = "Sane"
    THEN UNION { IF overlap >= e
                 THEN Event_next(state.ev, t)
                 ELSE { Outcome(Sane([state.ev EXCEPT !.t = t], state.time), None) }
                 : e \in get_time_exp }
    ELSE {}

\* State::start advancing whatever the overlap
State_start_Eager(state, t, overlap) ==
    IF state.tag = "Sane"
    THEN UNION { IF overlap >= 0 THEN Event_next(state.ev, t) ELSE { Outcome(state, None) }
                 : e \in get_time_exp }
    ELSE {}

\* State::start answering a state that is not Sane with that state and no time
State_start_Lenient(state, t, overlap) ==
    IF state.tag = "Sane"
    THEN UNION { IF overlap >= e THEN Event_next(state.ev, t) ELSE { Outcome(state, None) }
                 : e \in get_time_exp }
    ELSE { Outcome(state, None) }

State_start(state, t, overlap) ==
    IF state.tag = "Sane"
    THEN UNION { IF overlap >= e THEN Event_next(state.ev, t) ELSE { Outcome(state, None) }
                 : e \in get_time_exp }
    ELSE {}

State_start_now(state, t) ==
    IF state.tag = "Sane" THEN Event_next(state.ev, t) ELSE {}

----------------------------------------------------------------------------
(* Grid (grid/mod.rs): data is row-major; a cell holds thousandths *)

MILLI == 1000
SPACING == 2
DT_SECONDS == 60
MAP_WIDTH == 6
MAP_HEIGHT == 6
MIN_X == 0
MIN_Y == 0
KAPPA_MILLI == 2
DECAY_MILLI == 2
ABSORB_MILLI == 10
MAG_PER_SEC == 1
delta_t == 1

CeilDiv(a, b) == (a + b - 1) \div b
\* `as usize` saturates a negative value to 0
FloorDivUsize(a, b) == IF a < 0 THEN 0 ELSE a \div b

\* PandemicModel::new: nx = ceil(width / dx), ny = ceil(height / dx)
NX == CeilDiv(MAP_WIDTH, SPACING)
NY == CeilDiv(MAP_HEIGHT, SPACING)

Grid_new(width, height, default) ==
    [data |-> [i \in 0..(width * height - 1) |-> default], width |-> width, height |-> height]
Grid_zero(width, height) == Grid_new(width, height, 0)

Grid_idx(g, x, y) == y * g.width + x
\* Index / IndexMut: the Vec's own bounds check is the only one
Grid_in_data(g, x, y) == Grid_idx(g, x, y) \in DOMAIN g.data
Grid_at(g, x, y) == g.data[Grid_idx(g, x, y)]
Grid_set(g, x, y, v) == [g EXCEPT !.data[Grid_idx(g, x, y)] = v]
Grid_get(g, x, y) == IF x >= g.width \/ y >= g.height THEN None ELSE Some(Grid_at(g, x, y))

CellX(pos, dx) == FloorDivUsize(pos[1] - MIN_X, dx)
CellY(pos, dx) == FloorDivUsize(pos[2] - MIN_Y, dx)

GridRes(g, f) == [grid |-> g, fault |-> f]

\* add_sources writing dt * mag_per_sec to the cell instead of adding it
RECURSIVE Grid_add_sources_Assign(_, _, _, _, _)
Grid_add_sources_Assign(g, walkers, dx, dt, mag_per_sec) ==
    IF walkers = << >>
    THEN GridRes(g, "none")
    ELSE LET x == CellX(Head(walkers), dx)
             y == CellY(Head(walkers), dx)
         IN  IF ~Grid_in_data(g, x, y)
             THEN GridRes(g, "index_out_of_bounds")
             ELSE Grid_add_sources_Assign(Grid_set(g, x, y, dt * mag_per_sec * MILLI),
                                          Tail(walkers), dx, dt, mag_per_sec)

RECURSIVE Grid_add_sources(_, _, _, _, _)
Grid_add_sources(g, walkers, dx, dt, mag_per_sec) ==
    IF walkers = << >>
    THEN GridRes(g, "none")
    ELSE LET x == CellX(Head(walkers), dx)
             y == CellY(Head(walkers), dx)
         IN  IF ~Grid_in_data(g, x, y)
             THEN GridRes(g, "index_out_of_bounds")
             ELSE Grid_add_sources(Grid_set(g, x, y, Grid_at(g, x, y) + dt * mag_per_sec * MILLI),
                                   Tail(walkers), dx, dt, mag_per_sec)

\* 1 - 4 dt / (dx dx) kappa - dt decay, and dt / (dx dx) kappa, in thousandths
DiffuseKeep(kappa, decay, dx, dt) == MILLI - (4 * dt * kappa) \div (dx * dx) - dt * decay
DiffuseShare(kappa, dx, dt) == (dt * kappa) \div (dx * dx)

Interior(g, i) ==
    LET x == i % g.width
        y == i \div g.width
    IN  /\ 1 <= x /\ x < g.width - 1
        /\ 1 <= y /\ y < g.height - 1

DiffuseCell(g, cpy, i, kappa, decay, dx, dt) ==
    LET x == i % g.width
        y == i \div g.width
    IN  (Grid_at(g, x, y) * DiffuseKeep(kappa, decay, dx, dt)) \div MILLI
        + (DiffuseShare(kappa, dx, dt)
           * (Grid_at(cpy, x + 1, y) + Grid_at(cpy, x - 1, y)
              + Grid_at(cpy, x, y + 1) + Grid_at(cpy, x, y - 1))) \div MILLI

\* the interior cells in the order of the loops: x outermost, y innermost
InteriorInOrder(g) ==
    [k \in 1..((g.width - 2) * (g.height - 2)) |->
        Grid_idx(g, 1 + ((k - 1) \div (g.height - 2)), 1 + ((k - 1) % (g.height - 2)))]

RECURSIVE DiffuseInPlace(_, _, _, _, _, _)
DiffuseInPlace(g, cells, kappa, decay, dx, dt) ==
    IF cells = << >>
    THEN g
    ELSE DiffuseInPlace([g EXCEPT !.data[Head(cells)] =
                                     DiffuseCell(g, g, Head(cells), kappa, decay, dx, dt)],
                        Tail(cells), kappa, decay, dx, dt)

\* Grid::diffuse without the clone: a cell reads the neighbours already written
Grid_diffuse_InPlace(g, kappa, decay, dx, dt) ==
    IF ~(DiffuseKeep(kappa, decay, dx, dt) > 0)
    THEN GridRes(g, "assert_stability")
    ELSE GridRes(DiffuseInPlace(g, InteriorInOrder(g), kappa, decay, dx, dt), "none")

\* Grid::diffuse accepting the stability boundary (assert!(.. >= 0.0))
Grid_diffuse_AtBoundary(g, kappa, decay, dx, dt) ==
    IF DiffuseKeep(kappa, decay, dx, dt) < 0
    THEN GridRes(g, "assert_stability")
    ELSE GridRes([g EXCEPT !.data = [i \in DOMAIN g.data |->
                        IF Interior(g, i)
                        THEN DiffuseCell(g, g, i, kappa, decay, dx, dt)
                        ELSE g.data[i]]],
                 "none")

Grid_diffuse(g, kappa, decay, dx, dt) ==
    IF ~(DiffuseKeep(kappa, decay, dx, dt) > 0)
    THEN GridRes(g, "assert_stability")
    ELSE GridRes([g EXCEPT !.data = [i \in DOMAIN g.data |->
                        IF Interior(g, i)
                        THEN DiffuseCell(g, g, i, kappa, decay, dx, dt)
                        ELSE g.data[i]]],
                 "none")

\* Grid::absorb zeroing the cells at the floor too (*x <= min)
Grid_absorb_Inclusive(g, min) ==
    [g EXCEPT !.data = [i \in DOMAIN g.data |-> IF g.data[i] <= min THEN 0 ELSE g.data[i]]]

Grid_absorb(g, min) ==
    [g EXCEPT !.data = [i \in DOMAIN g.data |-> IF g.data[i] < min THEN 0 ELSE g.data[i]]]

----------------------------------------------------------------------------
(* SharedSpace<T> (pandemic.rs): occupants is a map from the spaces seen so *)
(* far to the list of (person, entry time) pairs                           *)

SharedSpace_new == << >>

Occupants(occ, space) == IF space \in DOMAIN occ THEN occ[space] ELSE << >>

\* occupants.entry(space).or_insert_with(Vec::new) followed by a write of the list
WithOccupants(occ, space, list) ==
    [k \in DOMAIN occ \cup {space} |-> IF k = space THEN list ELSE occ[k]]

\* person_enters_space pushing the pair twice
person_enters_space_Twice(occ, t, person, space) ==
    WithOccupants(occ, space,
                  Append(Append(Occupants(occ, space), <<person, t>>), <<person, t>>))

person_enters_space(occ, t, person, space) ==
    WithOccupants(occ, space, Append(Occupants(occ, space), <<person, t>>))

IsPerson(entry, person) == entry[1] = person
\* a retain closure that keeps nothing
KeepEntry_None(entry, person) == FALSE
KeepEntry(entry, person) == ~IsPerson(entry, person)

\* a retain that removes nothing
Retained_All(list, person) == list

\* the entries the retain closure keeps
Retained(list, person) == SelectSeq(list, LAMBDA e : KeepEntry(e, person))

\* inside_since starting as Some(0) instead of None
InsideSince_Zero(list, person) ==
    LET mine == SelectSeq(list, LAMBDA e : IsPerson(e, person))
    IN  IF mine = << >> THEN Some(0) ELSE Some(mine[Len(mine)][2])

\* inside_since: the closure overwrites it at every entry of the person
InsideSince(list, person) ==
    LET mine == SelectSeq(list, LAMBDA e : IsPerson(e, person))
    IN  IF mine = << >> THEN None ELSE Some(mine[Len(mine)][2])

\* the overlap counted from the earlier of the two entry times
Overlap_FromEarlier(t, entry, inside_since) ==
    t - (IF entry[2] <= inside_since THEN entry[2] ELSE inside_since)
Overlap(t, entry, inside_since) == t - MaxOf(entry[2], inside_since)

\* person_leaves_space: the ledger afterwards and the value returned
person_leaves_space(occ, t, person, space) ==
    LET list == Occupants(occ, space)
        kept == Retained(list, person)
        since == InsideSince(list, person)
    IN  [occ |-> WithOccupants(occ, space, kept),
         ret |-> IF since = None
                 THEN None
                 ELSE Some([i \in 1..Len(kept) |->
                              <<kept[i][1], Overlap(t, kept[i], unwrap(since))>>])]

----------------------------------------------------------------------------
(* Cmd and the Scheduler *)

Cmd_Poll == [kind |-> "Poll", person |-> 0]
Cmd_Transition(p) == [kind |-> "Transition", person |-> p]
Cmd_Transmission(p) == [kind |-> "Transmission", person |-> p]

\* impl From<(State, PersonID)> for Cmd; Dead and Recovered are unreachable!()
Cmd_from_is_unreachable(state) == state.tag \in {"Dead", "Recovered"}
\* the conversion answering Transmission for every state
Cmd_from_Transmission(state, p) == Cmd_Transmission(p)
Cmd_from(state, p) ==
    IF state.tag = "Sane" THEN Cmd_Transmission(p) ELSE Cmd_Transition(p)

\* scheduler.push(time, Command::Pandemic(cmd))
push(sc, time, cmd) == sc (+) SetToBag({[time |-> time, cmd |-> cmd]})

Pending(sc) == BagToSet(sc)

----------------------------------------------------------------------------
(* PandemicModel (pandemic.rs): the private helpers.  Each returns the set  *)
(* of results the rng allows, a result being the population, the scheduler  *)
(* and the panic, if any, that ended the call.                              *)

Res(pp, sc, f) == [pop |-> pp, scheduler |-> sc, fault |-> f]

pop_remove(pp, person) == [q \in DOMAIN pp \ {person} |-> pp[q]]
pop_insert(pp, person, state) ==
    [q \in DOMAIN pp \cup {person} |-> IF q = person THEN state ELSE pp[q]]

is_sane(pp, person) == State_is_sane(pp[person])
is_exposed(pp, person) == State_is_exposed(pp[person])
is_infectious(pp, person) == State_is_infectious(pp[person])
is_recovered(pp, person) == State_is_recovered(pp[person])
is_dead(pp, person) == State_is_dead(pp[person])

count_sane(pp) == Cardinality({ q \in DOMAIN pp : pp[q].tag = "Sane" })
count_exposed(pp) == Cardinality({ q \in DOMAIN pp : pp[q].tag = "Exposed" })
count_infected(pp) == Cardinality({ q \in DOMAIN pp : pp[q].tag \in {"Infectious", "Hospitalized"} })
count_recovered(pp) == Cardinality({ q \in DOMAIN pp : pp[q].tag = "Recovered" })
count_dead(pp) == Cardinality({ q \in DOMAIN pp : pp[q].tag = "Dead" })
count_total(pp) ==
    count_sane(pp) + count_exposed(pp) + count_infected(pp) + count_recovered(pp) + count_dead(pp)

\* PushAndInsert without the insert that follows a transition scheduling nothing
PushAndInsert_NoReinsert(pp, sc, person, out) ==
    IF out.time = None
    THEN Res(pp, sc, "none")
    ELSE IF Cmd_from_is_unreachable(out.state)
         THEN Res(pp, sc, "unreachable")
         ELSE Res(pop_insert(pp, person, out.state),
                  push(sc, unwrap(out.time), Cmd_from(out.state, person)), "none")

\* PushAndInsert pushing the command one step later than the event's time
PushAndInsert_Late(pp, sc, person, out) ==
    IF out.time = None
    THEN Res(pop_insert(pp, person, out.state), sc, "none")
    ELSE IF Cmd_from_is_unreachable(out.state)
         THEN Res(pp, sc, "unreachable")
         ELSE Res(pop_insert(pp, person, out.state),
                  push(sc, unwrap(out.time) + 1, Cmd_from(out.state, person)), "none")

\* match state { (s, Some(t)) => { scheduler.push(t, Cmd::from((s, p))); s }, (s, None) => s }
\* followed by self.pop.insert(person, state)
PushAndInsert(pp, sc, person, out) ==
    IF out.time = None
    THEN Res(pop_insert(pp, person, out.state), sc, "none")
    ELSE IF Cmd_from_is_unreachable(out.state)
         THEN Res(pp, sc, "unreachable")
         ELSE Res(pop_insert(pp, person, out.state),
                  push(sc, unwrap(out.time), Cmd_from(out.state, person)), "none")

transition(pp, sc, t, person) ==
    LET state == pp[person]
        rest == pop_remove(pp, person)
    IN  { PushAndInsert(rest, sc, person, out) : out \in State_next(state, AnyTime_from(t)) }

become_exposed(pp, sc, t, overlap, person) ==
    LET state == pp[person]
        rest == pop_remove(pp, person)
    IN  IF State_get_event_time(state) = None
        THEN { Res(rest, sc, "unwrap") }
        ELSE IF unwrap(State_get_event_time(state)) # INFINITY
        THEN { Res(rest, sc, "assert_eq") }
        ELSE IF State_start_is_err(state)
        THEN { Res(rest, sc, "unwrap") }
        ELSE { PushAndInsert(rest, sc, person, out)
               : out \in State_start(state, AnyTime_from(t), overlap) }

\* infectious_contact taking an Exposed person for a contagious one
infectious_contact_Exposed(pp, person, other) ==
    IF is_sane(pp, person) /\ (is_infectious(pp, other) \/ is_exposed(pp, other))
    THEN Some(person)
    ELSE IF (is_infectious(pp, person) \/ is_exposed(pp, person)) /\ is_sane(pp, other)
    THEN Some(other)
    ELSE None

infectious_contact(pp, person, other) ==
    IF is_sane(pp, person) /\ is_infectious(pp, other) THEN Some(person)
    ELSE IF is_infectious(pp, person) /\ is_sane(pp, other) THEN Some(other)
    ELSE None

RECURSIVE transmission(_, _, _, _, _)
transmission(pp, sc, t, person, other_occupants) ==
    IF other_occupants = << >>
    THEN { Res(pp, sc, "none") }
    ELSE LET other == Head(other_occupants)[1]
             overlap == Head(other_occupants)[2]
             pid == infectious_contact(pp, person, other)
         IN  IF pid = None
             THEN transmission(pp, sc, t, person, Tail(other_occupants))
             ELSE UNION { IF r.fault # "none"
                          THEN { r }
                          ELSE transmission(r.pop, r.scheduler, t, person, Tail(other_occupants))
                          : r \in become_exposed(pp, sc, t, overlap, unwrap(pid)) }

----------------------------------------------------------------------------
(* PandemicModel::new and PandemicModel::initialize *)

Call(op, person, space, ret) == [op |-> op, person |-> person, space |-> space, ret |-> ret]

Init ==
    /\ initialized = FALSE
    /\ pop = << >>
    /\ concentration = Grid_zero(NX, NY)
    /\ bldgs = SharedSpace_new
    /\ sidewalks = SharedSpace_new
    /\ remote_bldgs = SharedSpace_new
    /\ bus_stops = SharedSpace_new
    /\ buses = SharedSpace_new
    /\ person_to_bus = << >>
    /\ scheduler = EmptyBag
    /\ now = START_OF_DAY
    /\ fault = "none"
    /\ last = Call("new", 0, "", None)
    /\ nsteps = 0

\* initialize's loop body pushing no command for a person who starts Infectious
InitPerson_NoPush(p) ==
    LET state == State_new(P_HOSP_INI, P_DEATH_INI)
        started == State_start(state, AnyTime_from(START_OF_DAY), DURATION_MAX)
        advanced == UNION { State_next_default(o.state, AnyTime_from(START_OF_DAY))
                            : o \in started }
    IN  UNION { IF ~exposed
                THEN { Outcome(state, None) }
                ELSE UNION { IF infectious
                             THEN { Outcome(o.state, None) : o \in advanced }
                             ELSE started
                             : infectious \in gen_bool(I_RATIO, 100) }
                : exposed \in gen_bool(E_RATIO, 100) }

\* the body of initialize's loop for one person: the state inserted and the
\* command pushed, if any
InitPerson(p) ==
    LET state == State_new(P_HOSP_INI, P_DEATH_INI)
        started == State_start(state, AnyTime_from(START_OF_DAY), DURATION_MAX)
        advanced == UNION { State_next_default(o.state, AnyTime_from(START_OF_DAY))
                            : o \in started }
    IN  UNION { IF ~exposed
                THEN { Outcome(state, None) }
                ELSE UNION { IF infectious THEN advanced ELSE started
                             : infectious \in gen_bool(I_RATIO, 100) }
                : exposed \in gen_bool(E_RATIO, 100) }

RECURSIVE initialize(_, _, _)
initialize(pp, sc, population) ==
    IF population = << >>
    THEN { Res(pp, sc, "none") }
    ELSE UNION { LET r == PushAndInsert(pp, sc, Head(population), o)
                 IN  IF r.fault # "none"
                     THEN { r }
                     ELSE initialize(r.pop, r.scheduler, Tail(population))
                 : o \in InitPerson(Head(population)) }

Initialize ==
    /\ fault = "none"
    /\ ~initialized
    /\ initialized' = TRUE
    /\ \E r \in initialize(pop, scheduler, Population) :
          /\ pop' = r.pop
          /\ scheduler' = r.scheduler
          /\ fault' = r.fault
    /\ UNCHANGED <<concentration, ledgers, person_to_bus, now, last, nsteps>>

----------------------------------------------------------------------------
(* PandemicModel::handle_event, one action per arm of the match *)

\* assert!(self.initialized), and the budget of handled events and commands
Budget ==
    /\ fault = "none"
    /\ initialized
    /\ nsteps < MaxSteps
    /\ nsteps' = nsteps + 1

StepGuard ==
    /\ Budget
    /\ UNCHANGED last

\* a leave arm taking a missing entry for an empty list of overlaps
LeaveAndTransmit_Lenient(left, person) ==
    \E r \in transmission(pop, scheduler, now, person,
                           IF left.ret = None THEN <<>> ELSE unwrap(left.ret)) :
       /\ pop' = r.pop
       /\ scheduler' = r.scheduler
       /\ fault' = r.fault

\* if let Some(others) = ledger.person_leaves_space(..) { self.transmission(..) }
\* else { panic!(..) }   (RidingBus and Walking unwrap instead)
LeaveAndTransmit(left, person) ==
    IF left.ret = None
    THEN /\ fault' = "left_not_inside"
         /\ UNCHANGED <<pop, scheduler>>
    ELSE \E r \in transmission(pop, scheduler, now, person, unwrap(left.ret)) :
            /\ pop' = r.pop
            /\ scheduler' = r.scheduler
            /\ fault' = r.fault

\* The host's event protocol: a person enters a kind of space only when in no
\* space of that kind, leaves only a space they are in, boards a bus only from
\* the stop they wait at.  `host` is "protocol" for a host that keeps to it and
\* "any" for one that may send any event.
Inside(occ, p, space) == \E i \in 1..Len(Occupants(occ, space)) : Occupants(occ, space)[i][1] = p
Somewhere(occ, p) == \E space \in DOMAIN occ : Inside(occ, p, space)
MayEnter(host, occ, p) == host = "protocol" => ~Somewhere(occ, p)
MayLeave(host, occ, p, space) == host = "protocol" => Inside(occ, p, space)

AgentEntersLane(host, p, lid) ==
    /\ MayEnter(host, sidewalks, p)
    /\ StepGuard
    /\ sidewalks' = person_enters_space(sidewalks, now, p, lid)
    /\ UNCHANGED <<initialized, pop, concentration, bldgs, remote_bldgs, bus_stops, buses,
                   person_to_bus, scheduler, now, fault>>

AgentLeavesLane(host, p, lid) ==
    LET left == person_leaves_space(sidewalks, now, p, lid)
    IN  /\ MayLeave(host, sidewalks, p, lid)
        /\ StepGuard
        /\ sidewalks' = left.occ
        /\ LeaveAndTransmit(left, p)
        /\ UNCHANGED <<initialized, concentration, bldgs, remote_bldgs, bus_stops, buses,
                       person_to_bus, now>>

\* PersonEntersBuilding running the transmission against those already inside
PersonEntersBuilding_Transmit(host, p, bldg) ==
    /\ MayEnter(host, bldgs, p)
    /\ StepGuard
    /\ bldgs' = person_enters_space(bldgs, now, p, bldg)
    /\ \E r \in transmission(pop, scheduler, now, p,
                              [i \in 1..Len(Occupants(bldgs, bldg)) |->
                                  <<Occupants(bldgs, bldg)[i][1],
                                    now - Occupants(bldgs, bldg)[i][2]>>]) :
          /\ pop' = r.pop
          /\ scheduler' = r.scheduler
          /\ fault' = r.fault
    /\ UNCHANGED <<initialized, concentration, sidewalks, remote_bldgs, bus_stops, buses,
                   person_to_bus, now>>

PersonEntersBuilding(host, p, bldg) ==
    /\ MayEnter(host, bldgs, p)
    /\ StepGuard
    /\ bldgs' = person_enters_space(bldgs, now, p, bldg)
    /\ UNCHANGED <<initialized, pop, concentration, sidewalks, remote_bldgs, bus_stops, buses,
                   person_to_bus, scheduler, now, fault>>

PersonLeavesBuilding(host, p, bldg) ==
    LET left == person_leaves_space(bldgs, now, p, bldg)
    IN  /\ MayLeave(host, bldgs, p, bldg)
        /\ StepGuard
        /\ bldgs' = left.occ
        /\ LeaveAndTransmit(left, p)
        /\ UNCHANGED <<initialized, concentration, sidewalks, remote_bldgs, bus_stops, buses,
                       person_to_bus, now>>

PersonEntersRemoteBuilding(host, p, loc) ==
    /\ MayEnter(host, remote_bldgs, p)
    /\ StepGuard
    /\ remote_bldgs' = person_enters_space(remote_bldgs, now, p, loc)
    /\ UNCHANGED <<initialized, pop, concentration, bldgs, sidewalks, bus_stops, buses,
                   person_to_bus, scheduler, now, fault>>

PersonLeavesRemoteBuilding(host, p, loc) ==
    LET left == person_leaves_space(remote_bldgs, now, p, loc)
    IN  /\ MayLeave(host, remote_bldgs, p, loc)
        /\ StepGuard
        /\ remote_bldgs' = left.occ
        /\ LeaveAndTransmit(left, p)
        /\ UNCHANGED <<initialized, concentration, bldgs, sidewalks, bus_stops, buses,
                       person_to_bus, now>>

WaitingForBus(host, p, stop) ==
    /\ MayEnter(host, bus_stops, p)
    /\ MayEnter(host, buses, p)
    /\ StepGuard
    /\ bus_stops' = person_enters_space(bus_stops, now, p, stop)
    /\ UNCHANGED <<initialized, pop, concentration, bldgs, sidewalks, remote_bldgs, buses,
                   person_to_bus, scheduler, now, fault>>

\* a panic in the unwrap or in transmission ends the arm before the bus is entered
RidingBus(host, p, stop, bus) ==
    LET left == person_leaves_space(bus_stops, now, p, stop)
    IN  /\ MayLeave(host, bus_stops, p, stop)
        /\ MayEnter(host, buses, p)
        /\ StepGuard
        /\ bus_stops' = left.occ
        /\ LeaveAndTransmit(left, p)
        /\ IF fault' = "none"
           THEN /\ buses' = person_enters_space(buses, now, p, bus)
                /\ person_to_bus' = pop_insert(person_to_bus, p, bus)
           ELSE UNCHANGED <<buses, person_to_bus>>
        /\ UNCHANGED <<initialized, concentration, bldgs, sidewalks, remote_bldgs, now>>

\* the Walking arm leaving the bus without removing the person's mapping
Walking_KeepsMapping(p) ==
    /\ StepGuard
    /\ IF p \in DOMAIN person_to_bus
       THEN LET car == person_to_bus[p]
                left == person_leaves_space(buses, now, p, car)
            IN  /\ person_to_bus' = person_to_bus
                /\ buses' = left.occ
                /\ LeaveAndTransmit(left, p)
       ELSE UNCHANGED <<person_to_bus, buses, pop, scheduler, fault>>
    /\ UNCHANGED <<initialized, concentration, bldgs, sidewalks, remote_bldgs, bus_stops,
                   now>>

Walking(p) ==
    /\ StepGuard
    /\ IF p \in DOMAIN person_to_bus
       THEN LET car == person_to_bus[p]
                left == person_leaves_space(buses, now, p, car)
            IN  /\ person_to_bus' = pop_remove(person_to_bus, p)
                /\ buses' = left.occ
                /\ LeaveAndTransmit(left, p)
       ELSE UNCHANGED <<person_to_bus, buses, pop, scheduler, fault>>
    /\ UNCHANGED <<initialized, concentration, bldgs, sidewalks, remote_bldgs, bus_stops,
                   now>>

\* the arms without effect: a traversable that is no lane, an agent that is no
\* person, the other trip phases, PersonLeavesMap, PersonEntersMap, and `_ => {}`
IgnoredEvent ==
    /\ StepGuard
    /\ UNCHANGED <<initialized, pop, concentration, ledgers, person_to_bus, scheduler, now,
                   fault>>

HandleEventFor(host, people) ==
    \/ \E p \in people :
          \/ \E lid \in LaneIDs : AgentEntersLane(host, p, lid) \/ AgentLeavesLane(host, p, lid)
          \/ \E bldg \in BuildingIDs :
                PersonEntersBuilding(host, p, bldg) \/ PersonLeavesBuilding(host, p, bldg)
          \/ \E loc \in OffMapLocations :
                PersonEntersRemoteBuilding(host, p, loc) \/ PersonLeavesRemoteBuilding(host, p, loc)
          \/ \E stop \in BusStopIDs :
                WaitingForBus(host, p, stop) \/ \E bus \in CarIDs : RidingBus(host, p, stop, bus)
          \/ Walking(p)
    \/ IgnoredEvent

HandleEvent(host) == HandleEventFor(host, Persons)

----------------------------------------------------------------------------
(* PandemicModel::handle_cmd *)

\* WalkingSimState::get_unzoomed_agents: the pedestrians now on the map
WalkerPositions == {<<1, 1>>, <<3, 3>>, <<MAP_WIDTH, 1>>}
Agent(person, pos) == [person |-> person, pos |-> pos]
\* an agent that is no person (person: None)
NoPersonAgent == Agent(None, <<1, 1>>)
PersonAgents == { Agent(Some(p), pos) : p \in Persons, pos \in WalkerPositions }
\* every person is at most one pedestrian
PedestrianLists ==
    { ws \in UNION { [1..n -> PersonAgents] : n \in 0..Cardinality(Persons) } :
        \A i, j \in 1..Len(ws) : i # j => ws[i].person # ws[j].person }
WalkerLists ==
    PedestrianLists \cup { Append(ws, NoPersonAgent) : ws \in { l \in PedestrianLists : Len(l) <= 1 } }

RECURSIVE pedestrian_transmission(_, _, _, _, _, _)
pedestrian_transmission(pp, sc, g, t, sane_walkers, dx) ==
    IF sane_walkers = << >>
    THEN { Res(pp, sc, "none") }
    ELSE LET p == Head(sane_walkers)[1]
             x == CellX(Head(sane_walkers)[2], dx)
             y == CellY(Head(sane_walkers)[2], dx)
             state == pp[p]
             rest == pop_remove(pp, p)
         IN  IF ~Grid_in_data(g, x, y)
             THEN { Res(pp, sc, "index_out_of_bounds") }
             ELSE IF gen_bool_panics(Grid_at(g, x, y), 100 * MILLI)
             THEN { Res(pp, sc, "gen_bool") }
             ELSE UNION {
                 IF ~hit
                 THEN pedestrian_transmission(pp, sc, g, t, Tail(sane_walkers), dx)
                 ELSE IF State_get_event_time(state) = None
                 THEN { Res(rest, sc, "unwrap") }
                 ELSE IF unwrap(State_get_event_time(state)) # INFINITY
                 THEN { Res(rest, sc, "assert_eq") }
                 ELSE IF State_start_is_err(state)
                 THEN { Res(rest, sc, "unwrap") }
                 ELSE UNION { LET r == PushAndInsert(rest, sc, p, out)
                              IN  IF r.fault # "none"
                                  THEN { r }
                                  ELSE pedestrian_transmission(r.pop, r.scheduler, g, t,
                                                               Tail(sane_walkers), dx)
                              : out \in State_start_now(state, AnyTime_from(t)) }
                 : hit \in gen_bool(Grid_at(g, x, y), 100 * MILLI) }

InfectiousPed(pp, walkers) ==
    LET inf == SelectSeq(walkers, LAMBDA a : is_infectious(pp, unwrap(a.person)))
    IN  [i \in 1..Len(inf) |-> inf[i].pos]
\* sane_ped without its is_sane filter
SanePed_All(pp, walkers) ==
    [i \in 1..Len(walkers) |-> <<unwrap(walkers[i].person), walkers[i].pos>>]
SanePed(pp, walkers) ==
    LET sane == SelectSeq(walkers, LAMBDA a : is_sane(pp, unwrap(a.person)))
    IN  [i \in 1..Len(sane) |-> <<unwrap(sane[i].person), sane[i].pos>>]

\* the Cmd::Poll arm; a result is the grid, the population, the scheduler and the panic
PollRes(g, pp, sc, f) == [grid |-> g, pop |-> pp, scheduler |-> sc, fault |-> f]

\* the Cmd::Poll arm pushing the next Poll before the exposure trials
poll_PushFirst(g, pp, sc, t, walkers) ==
    IF \E i \in 1..Len(walkers) : walkers[i].person = None
    THEN { PollRes(g, pp, sc, "unwrap") }
    ELSE LET infectious_ped == InfectiousPed(pp, walkers)
             sane_ped == SanePed(pp, walkers)
             sourced == IF Len(infectious_ped) > 0
                        THEN Grid_add_sources(g, infectious_ped, SPACING, DT_SECONDS, MAG_PER_SEC)
                        ELSE GridRes(g, "none")
             diffused == Grid_diffuse(sourced.grid, KAPPA_MILLI, DECAY_MILLI, SPACING, DT_SECONDS)
             absorbed == Grid_absorb(diffused.grid, ABSORB_MILLI)
         IN  IF sourced.fault # "none" THEN { PollRes(sourced.grid, pp, sc, sourced.fault) }
             ELSE IF diffused.fault # "none" THEN { PollRes(diffused.grid, pp, sc, diffused.fault) }
             ELSE { PollRes(absorbed, r.pop, r.scheduler, r.fault)
                    : r \in pedestrian_transmission(pp, push(sc, t + delta_t, Cmd_Poll), absorbed,
                                                    t, sane_ped, SPACING) }

poll(g, pp, sc, t, walkers) ==
    IF \E i \in 1..Len(walkers) : walkers[i].person = None
    THEN { PollRes(g, pp, sc, "unwrap") }
    ELSE LET infectious_ped == InfectiousPed(pp, walkers)
             sane_ped == SanePed(pp, walkers)
             sourced == IF Len(infectious_ped) > 0
                        THEN Grid_add_sources(g, infectious_ped, SPACING, DT_SECONDS, MAG_PER_SEC)
                        ELSE GridRes(g, "none")
             diffused == Grid_diffuse(sourced.grid, KAPPA_MILLI, DECAY_MILLI, SPACING, DT_SECONDS)
             absorbed == Grid_absorb(diffused.grid, ABSORB_MILLI)
         IN  IF sourced.fault # "none" THEN { PollRes(sourced.grid, pp, sc, sourced.fault) }
             ELSE IF diffused.fault # "none" THEN { PollRes(diffused.grid, pp, sc, diffused.fault) }
             ELSE { IF r.fault # "none"
                    THEN PollRes(absorbed, r.pop, r.scheduler, r.fault)
                    ELSE PollRes(absorbed, r.pop, push(r.scheduler, t + delta_t, Cmd_Poll), "none")
                    : r \in pedestrian_transmission(pp, sc, absorbed, t, sane_ped, SPACING) }

HandlePoll(sc) ==
    /\ \E walkers \in WalkerLists :
          \E r \in poll(concentration, pop, sc, now, walkers) :
             /\ concentration' = r.grid
             /\ pop' = r.pop
             /\ scheduler' = r.scheduler
             /\ fault' = r.fault
    /\ UNCHANGED <<initialized, ledgers, person_to_bus, now>>

HandleTransition(sc, person) ==
    /\ \E r \in transition(pop, sc, now, person) :
          /\ pop' = r.pop
          /\ scheduler' = r.scheduler
          /\ fault' = r.fault
    /\ UNCHANGED <<initialized, concentration, ledgers, person_to_bus, now>>

\* BecomeHospitalized and BecomeQuarantined putting their command back on the scheduler
HandleStub_Requeue(sc, cmd) ==
    /\ scheduler' = push(sc, now, cmd)
    /\ UNCHANGED <<initialized, pop, concentration, ledgers, person_to_bus, now, fault>>

\* BecomeHospitalized and BecomeQuarantined do nothing
HandleStub(sc, cmd) ==
    /\ scheduler' = sc
    /\ UNCHANGED <<initialized, pop, concentration, ledgers, person_to_bus, now, fault>>

\* CancelFutureTrips and Transmission accepted and ignored
HandleUnreachable_Ignored(sc, cmd) ==
    /\ scheduler' = sc
    /\ UNCHANGED <<initialized, pop, concentration, ledgers, person_to_bus, now, fault>>

\* CancelFutureTrips and Transmission are unreachable!()
HandleUnreachable(sc, cmd) ==
    /\ scheduler' = sc
    /\ fault' = "unreachable"
    /\ UNCHANGED <<initialized, pop, concentration, ledgers, person_to_bus, now>>

handle_cmd(sc, cmd) ==
    CASE cmd.kind = "Poll" -> HandlePoll(sc)
      [] cmd.kind = "Transition" -> HandleTransition(sc, cmd.person)
      [] cmd.kind \in {"BecomeHospitalized", "BecomeQuarantined"} -> HandleStub(sc, cmd)
      [] cmd.kind \in {"CancelFutureTrips", "Transmission"} -> HandleUnreachable(sc, cmd)

----------------------------------------------------------------------------
(* The host simulator: its clock and its scheduler *)

Due(c) == c.time <= now
Earliest(c) == \A d \in Pending(scheduler) : c.time <= d.time

\* the scheduler hands over the earliest command once its time has come
DeliverCmd(c) ==
    /\ Due(c)
    /\ Earliest(c)
    /\ StepGuard
    /\ handle_cmd(scheduler (-) SetToBag({c}), c.cmd)

Deliver == \E c \in Pending(scheduler) : DeliverCmd(c)

\* the clock moves on when nothing is due
Advance ==
    /\ fault = "none"
    /\ now < MaxTime
    /\ \A c \in Pending(scheduler) : ~Due(c)
    /\ now' = now + 1
    /\ UNCHANGED <<initialized, pop, concentration, ledgers, person_to_bus, scheduler, fault,
                   last, nsteps>>

\* the host starts the polling loop (the push initialize leaves to it)
HasPoll(sc) == \E c \in Pending(sc) : c.cmd.kind = "Poll"
StartPolling ==
    /\ fault = "none"
    /\ initialized
    /\ ~HasPoll(scheduler)
    /\ nsteps < MaxSteps
    /\ scheduler' = push(scheduler, now, Cmd_Poll)
    /\ UNCHANGED <<initialized, pop, concentration, ledgers, person_to_bus, now, fault,
                   last, nsteps>>

\* a host that keeps to the event protocol
Next ==
    \/ Initialize
    \/ HandleEvent("protocol")
    \/ Deliver
    \/ Advance
    \/ StartPolling

Spec == Init /\ [][Next]_vars

\* a host that may send any event at any time
NextAnyHost ==
    \/ Initialize
    \/ HandleEvent("any")
    \/ Deliver
    \/ Advance
    \/ StartPolling

SpecAnyHost == Init /\ [][NextAnyHost]_vars

\* a host whose scheduler also hands over a Transition command for a person who
\* has none pending: a stale one, or one that was never pushed; `last` keeps
\* the command and the state it found the person in
HasTransition(sc, p) == \E c \in Pending(sc) : c.cmd = Cmd_Transition(p)
StaleTransitionOf(p) ==
    /\ ~HasTransition(scheduler, p)
    /\ Budget
    /\ handle_cmd(scheduler, Cmd_Transition(p))
    /\ last' = Call("Transition", p, pop[p].tag, None)

StaleTransition == \E p \in Persons : StaleTransitionOf(p)

NextStale == Next \/ StaleTransition

SpecStale == Init /\ [][NextStale]_vars

----------------------------------------------------------------------------
(* A caller of the public operations in any order, before initialize too;   *)
(* `last` holds the call made last and the value it returned                *)

State_get_time(state) == IF state.tag = "Sane" THEN None ELSE Some(state.time)

CountOps ==
    {"count_sane", "count_exposed", "count_infected", "count_recovered", "count_dead",
     "count_total"}
PersonOps == {"is_sane", "is_exposed", "is_infectious", "is_recovered", "is_dead", "get_time"}

CountOf(op, pp) ==
    CASE op = "count_sane" -> count_sane(pp)
      [] op = "count_exposed" -> count_exposed(pp)
      [] op = "count_infected" -> count_infected(pp)
      [] op = "count_recovered" -> count_recovered(pp)
      [] op = "count_dead" -> count_dead(pp)
      [] op = "count_total" -> count_total(pp)

\* match self.pop.get(&person) { Some(state) => state.is_..(), .. }
AnswerOf(op, state) ==
    CASE op = "is_sane" -> State_is_sane(state)
      [] op = "is_exposed" -> State_is_exposed(state)
      [] op = "is_infectious" -> State_is_infectious(state)
      [] op = "is_recovered" -> State_is_recovered(state)
      [] op = "is_dead" -> State_is_dead(state)
      [] op = "get_time" -> State_get_time(state)

\* count_*: a filter over pop, with no assert
CountQuery(op) ==
    /\ fault = "none"
    /\ nsteps < MaxSteps
    /\ nsteps' = nsteps + 1
    /\ last' = Call(op, 0, "", Some(CountOf(op, pop)))
    /\ UNCHANGED <<initialized, pop, concentration, ledgers, person_to_bus, scheduler, now,
                   fault>>

\* is_* and get_time: no assert, unreachable!() for a person pop does not hold
PersonQuery(op, person) ==
    /\ fault = "none"
    /\ nsteps < MaxSteps
    /\ nsteps' = nsteps + 1
    /\ IF person \in DOMAIN pop
       THEN /\ last' = Call(op, person, "", Some(AnswerOf(op, pop[person])))
            /\ UNCHANGED fault
       ELSE /\ last' = Call(op, person, "", None)
            /\ fault' = "unreachable"
    /\ UNCHANGED <<initialized, pop, concentration, ledgers, person_to_bus, scheduler, now>>

\* handle_event and handle_cmd before initialize: assert!(self.initialized) fails
UninitializedCall(op) ==
    /\ fault = "none"
    /\ ~initialized
    /\ fault' = "assert_initialized"
    /\ last' = Call(op, 0, "", None)
    /\ UNCHANGED <<initialized, pop, concentration, ledgers, person_to_bus, scheduler, now,
                   nsteps>>

\* handle_cmd called with a command of a kind the model itself never pushes
CommandCall(kind, person) ==
    /\ Budget
    /\ handle_cmd(scheduler, [kind |-> kind, person |-> person])
    /\ last' = Call(kind, person, "", None)

NextCaller ==
    \/ Initialize
    \/ HandleEvent("protocol")
    \/ \E op \in CountOps : CountQuery(op)
    \/ \E op \in PersonOps, person \in Persons : PersonQuery(op, person)
    \/ \E op \in {"handle_event", "handle_cmd"} : UninitializedCall(op)
    \/ \E kind \in {"BecomeHospitalized", "BecomeQuarantined", "CancelFutureTrips",
                     "Transmission"}, person \in Persons : CommandCall(kind, person)

SpecCaller == Init /\ [][NextCaller]_vars

----------------------------------------------------------------------------
(* initialize with the scheduled times its steps produce kept beside the    *)
(* result: `last` holds, for every person, the times that start and          *)
(* next_default returned for them, in order                                  *)

Produced(out) == IF out.time = None THEN << >> ELSE << unwrap(out.time) >>

\* the body of the loop pushing the time start returned even for a person it
\* advances to Infectious
InitPersonSteps_KeepStart(p) ==
    LET state == State_new(P_HOSP_INI, P_DEATH_INI)
        started == State_start(state, AnyTime_from(START_OF_DAY), DURATION_MAX)
    IN  UNION { IF ~exposed
                THEN { [out |-> Outcome(state, None), produced |-> << >>] }
                ELSE UNION { IF infectious
                             THEN { [out |-> Outcome(o2.state, o.time),
                                     produced |-> Produced(o) \o Produced(o2)]
                                    : o2 \in State_next_default(o.state,
                                                                AnyTime_from(START_OF_DAY)) }
                             ELSE { [out |-> o, produced |-> Produced(o)] }
                             : infectious \in gen_bool(I_RATIO, 100), o \in started }
                : exposed \in gen_bool(E_RATIO, 100) }

\* the body of the loop for one person: the outcome kept (state inserted, time
\* pushed) and every time a step returned
InitPersonSteps(p) ==
    LET state == State_new(P_HOSP_INI, P_DEATH_INI)
        started == State_start(state, AnyTime_from(START_OF_DAY), DURATION_MAX)
    IN  UNION { IF ~exposed
                THEN { [out |-> Outcome(state, None), produced |-> << >>] }
                ELSE UNION { IF infectious
                             THEN { [out |-> o2, produced |-> Produced(o) \o Produced(o2)]
                                    : o2 \in State_next_default(o.state,
                                                                AnyTime_from(START_OF_DAY)) }
                             ELSE { [out |-> o, produced |-> Produced(o)] }
                             : infectious \in gen_bool(I_RATIO, 100), o \in started }
                : exposed \in gen_bool(E_RATIO, 100) }

RECURSIVE initialize_produced(_, _, _, _)
initialize_produced(pp, sc, population, produced) ==
    IF population = << >>
    THEN { [res |-> Res(pp, sc, "none"), produced |-> produced] }
    ELSE UNION { LET person == Head(population)
                     r == PushAndInsert(pp, sc, person, st.out)
                     seen == pop_insert(produced, person, st.produced)
                 IN  IF r.fault # "none"
                     THEN { [res |-> r, produced |-> seen] }
                     ELSE initialize_produced(r.pop, r.scheduler, Tail(population), seen)
                 : st \in InitPersonSteps(Head(population)) }

InitializeProduced ==
    /\ fault = "none"
    /\ ~initialized
    /\ initialized' = TRUE
    /\ \E tr \in initialize_produced(pop, scheduler, Population, << >>) :
          /\ pop' = tr.res.pop
          /\ scheduler' = tr.res.scheduler
          /\ fault' = tr.res.fault
          /\ last' = Call("initialize", 0, "", Some(tr.produced))
    /\ UNCHANGED <<concentration, ledgers, person_to_bus, now, nsteps>>

NextSeed ==
    \/ InitializeProduced
    \/ Deliver
    \/ Advance

SpecSeed == Init /\ [][NextSeed]_vars

----------------------------------------------------------------------------
(* The polling loop with no infectious pedestrian on the map: `last` holds  *)
(* the number of Poll ticks handled so far                                  *)

\* the pedestrians the walker query returns: persons, none of them infectious
QuietWalkerLists(pp) ==
    { ws \in PedestrianLists :
        \A i \in 1..Len(ws) : ~is_infectious(pp, unwrap(ws[i].person)) }

PollTicks == IF last.op = "Poll" THEN unwrap(last.ret) ELSE 0

\* the scheduler hands over a due Poll command
PollTick ==
    \E c \in Pending(scheduler) :
       /\ c.cmd = Cmd_Poll
       /\ Due(c)
       /\ Earliest(c)
       /\ Budget
       /\ \E walkers \in QuietWalkerLists(pop) :
             \E r \in poll(concentration, pop, scheduler (-) SetToBag({c}), now, walkers) :
                /\ concentration' = r.grid
                /\ pop' = r.pop
                /\ scheduler' = r.scheduler
                /\ fault' = r.fault
       /\ last' = Call("Poll", 0, "", Some(PollTicks + 1))
       /\ UNCHANGED <<initialized, ledgers, person_to_bus, now>>

DeliverTransition == \E c \in Pending(scheduler) : c.cmd.kind = "Transition" /\ DeliverCmd(c)

NextPolling ==
    \/ Initialize
    \/ StartPolling
    \/ PollTick
    \/ DeliverTransition
    \/ Advance

SpecPolling == Init /\ [][NextPolling]_vars

----------------------------------------------------------------------------
(* Persons left Sane or forced into Exposed at the start of the day, each   *)
(* with p_hosp and p_death 0 or 1, and a host that delivers their           *)
(* Transition commands                                                      *)

\* state.start_now(START_OF_DAY) on State::new(p_hosp, p_death)
ForcedExposed ==
    UNION { State_start_now(State_new(p_hosp, p_death), AnyTime_from(START_OF_DAY))
            : p_hosp \in {0, 100}, p_death \in {0, 100} }

InitFate ==
    /\ initialized = TRUE
    /\ \E out \in [Persons -> ForcedExposed \cup {Outcome(State_new(0, 0), None)}] :
          /\ pop = [p \in Persons |-> out[p].state]
          /\ scheduler = SetToBag({ [time |-> unwrap(out[p].time), cmd |-> Cmd_from(out[p].state, p)]
                                    : p \in { q \in Persons : out[q].time # None } })
    /\ concentration = Grid_zero(NX, NY)
    /\ bldgs = SharedSpace_new
    /\ sidewalks = SharedSpace_new
    /\ remote_bldgs = SharedSpace_new
    /\ bus_stops = SharedSpace_new
    /\ buses = SharedSpace_new
    /\ person_to_bus = << >>
    /\ now = START_OF_DAY
    /\ fault = "none"
    /\ last = Call("new", 0, "", None)
    /\ nsteps = 0

\* the clock moves on to the time of the third transition of a chain
FateAdvance ==
    /\ fault = "none"
    /\ now < MaxTime + 2
    /\ \A c \in Pending(scheduler) : ~Due(c)
    /\ now' = now + 1
    /\ UNCHANGED <<initialized, pop, concentration, ledgers, person_to_bus, scheduler, fault,
                   last, nsteps>>

NextFate ==
    \/ Deliver
    \/ FateAdvance

SpecFate == InitFate /\ [][NextFate]_vars

\* one person at most is forced into Exposed, and the host is fair: it delivers a
\* command that is due and moves its clock on when nothing is
InitFair ==
    /\ InitFate
    /\ Cardinality({ p \in Persons : pop[p].tag # "Sane" }) <= 1

SpecFair == InitFair /\ [][NextFate]_vars /\ WF_vars(Deliver) /\ WF_vars(FateAdvance)

----------------------------------------------------------------------------
(* A Grid on its own: a caller of add_sources, diffuse and absorb on a grid *)
(* of GridWidth x GridHeight cells; `last` holds the call made last and its *)
(* arguments                                                                *)

GridWidth == 4
GridHeight == 3

\* positions in the cells (1, 1), (2, 1), (3, 0), and one in column `width` of
\* the last row, past the end of data
GridPositions == {<<3, 3>>, <<5, 3>>, <<7, 1>>, <<8, 5>>}

\* Grid::new(width, height, default), the default in thousandths
InitGrid ==
    /\ initialized = FALSE
    /\ pop = << >>
    /\ concentration \in { Grid_new(GridWidth, GridHeight, d) : d \in {0 - 5, 0, ABSORB_MILLI} }
    /\ bldgs = SharedSpace_new
    /\ sidewalks = SharedSpace_new
    /\ remote_bldgs = SharedSpace_new
    /\ bus_stops = SharedSpace_new
    /\ buses = SharedSpace_new
    /\ person_to_bus = << >>
    /\ scheduler = EmptyBag
    /\ now = START_OF_DAY
    /\ fault = "none"
    /\ last = Call("new", 0, "", None)
    /\ nsteps = 0

GridCall(op, args, r) ==
    /\ fault = "none"
    /\ nsteps < MaxSteps
    /\ nsteps' = nsteps + 1
    /\ concentration' = r.grid
    /\ fault' = r.fault
    /\ last' = Call(op, 0, "", Some(args))
    /\ UNCHANGED <<initialized, pop, ledgers, person_to_bus, scheduler, now>>

GridAddSources ==
    \E walkers \in UNION { [1..n -> GridPositions] : n \in 0..2 } :
       GridCall("add_sources", walkers,
                Grid_add_sources(concentration, walkers, SPACING, DT_SECONDS, MAG_PER_SEC))

\* (kappa, decay, dt): the values of the Poll tick, a call at the stability
\* boundary, one beyond it, and one with a large kappa
GridDiffuse ==
    \E a \in {<<KAPPA_MILLI, DECAY_MILLI, DT_SECONDS>>, <<500, 500, 1>>, <<600, 500, 1>>,
              <<200, 0, 1>>} :
       GridCall("diffuse", a, Grid_diffuse(concentration, a[1], a[2], SPACING, a[3]))

GridAbsorb ==
    \E floor \in {0, ABSORB_MILLI, 30 * MILLI} :
       GridCall("absorb", floor, GridRes(Grid_absorb(concentration, floor), "none"))

NextGrid ==
    \/ GridAddSources
    \/ GridDiffuse
    \/ GridAbsorb

SpecGrid == InitGrid /\ [][NextGrid]_vars

----------------------------------------------------------------------------
(* A SharedSpace<BuildingID> on its own, as tests::test_overlap drives it:   *)
(* the calls are made on `bldgs`, and `last` holds the call made last and     *)
(* the value it returned                                                     *)

SpacePersons == {1, 2, 3}
SpaceIDs == {"bldg1", "bldg2"}

RECURSIVE SumLen(_, _)
SumLen(occ, spaces) ==
    IF spaces = {} THEN 0
    ELSE LET space == CHOOSE x \in spaces : TRUE
         IN  Len(occ[space]) + SumLen(occ, spaces \ {space})

SpaceEntries(occ) == SumLen(occ, DOMAIN occ)

SpaceEnter(person, space) ==
    /\ SpaceEntries(bldgs) < MaxSpaceOcc
    /\ bldgs' = person_enters_space(bldgs, now, person, space)
    /\ last' = Call("person_enters_space", person, space, None)
    /\ UNCHANGED <<initialized, pop, concentration, sidewalks, remote_bldgs, bus_stops, buses,
                   person_to_bus, scheduler, now, fault, nsteps>>

SpaceLeave(person, space) ==
    LET left == person_leaves_space(bldgs, now, person, space)
    IN  /\ bldgs' = left.occ
        /\ last' = Call("person_leaves_space", person, space, left.ret)
        /\ UNCHANGED <<initialized, pop, concentration, sidewalks, remote_bldgs, bus_stops,
                       buses, person_to_bus, scheduler, now, fault, nsteps>>

\* now = time(x)
SpaceTick ==
    /\ now < MaxSpaceTime
    /\ now' = now + 1
    /\ UNCHANGED <<initialized, pop, concentration, ledgers, person_to_bus, scheduler, fault,
                   last, nsteps>>

NextSpace ==
    \/ \E person \in SpacePersons, space \in SpaceIDs :
          SpaceEnter(person, space) \/ SpaceLeave(person, space)
    \/ SpaceTick

SpecSpace == Init /\ [][NextSpace]_vars

----------------------------------------------------------------------------
(* handle_event on a crowd: three persons met in the middle of a run, each  *)
(* in any disease state, together in a building or around a bus, two events *)
(* before the budget ends                                                   *)

Crowd == {1, 2, 3}
CrowdEventTime == MaxTime + 2
CrowdStates ==
    { State_new(P_HOSP_INI, P_DEATH_INI),
      Exposed(MkEvent("Incubation", P_HOSP_INI, P_DEATH_INI, CrowdEventTime), START_OF_DAY),
      Infectious(MkEvent("Hospitalization", P_HOSP_INI, P_DEATH_INI, CrowdEventTime),
                 START_OF_DAY),
      Hospitalized(MkEvent("Death", P_HOSP_INI, P_DEATH_INI, CrowdEventTime), START_OF_DAY),
      Recovered(START_OF_DAY),
      Dead(START_OF_DAY) }
CrowdPops ==
    { pp \in [Crowd -> CrowdStates] : pp[3].tag \in {"Sane", "Infectious"} }
\* the Transition commands pending for the persons who have a finite next event
CrowdScheduler(pp) ==
    SetToBag({ [time |-> AnyTime_into(pp[p].ev.t), cmd |-> Cmd_Transition(p)]
               : p \in { q \in Crowd : HasEvent(pp[q]) /\ pp[q].tag # "Sane" } })

InitCrowd ==
    /\ initialized = TRUE
    /\ pop \in CrowdPops
    /\ scheduler = CrowdScheduler(pop)
    /\ concentration = Grid_zero(NX, NY)
    /\ sidewalks = SharedSpace_new
    /\ remote_bldgs = SharedSpace_new
    /\ \/ /\ bldgs = [b \in {"bldg1"} |-> <<<<1, 0>>, <<2, 0>>, <<3, 0>>>>]
          /\ bus_stops = SharedSpace_new
          /\ buses = SharedSpace_new
          /\ person_to_bus = << >>
       \/ /\ bldgs = SharedSpace_new
          /\ bus_stops = [b \in {"stop1"} |-> <<<<1, 0>>, <<2, 0>>>>]
          /\ buses = [b \in {"bus1"} |-> <<<<3, 0>>>>]
          /\ person_to_bus = [q \in {3} |-> "bus1"]
    /\ now = START_OF_DAY
    /\ fault = "none"
    /\ last = Call("new", 0, "", None)
    /\ nsteps = MaxSteps - 2

CrowdAdvance ==
    /\ fault = "none"
    /\ now < MaxTime + 1
    /\ now' = now + 1
    /\ UNCHANGED <<initialized, pop, concentration, ledgers, person_to_bus, scheduler, fault,
                   last, nsteps>>

NextCrowd == HandleEventFor("protocol", Crowd) \/ CrowdAdvance

SpecCrowd == InitCrowd /\ [][NextCrowd]_vars

\* the same crowd with a host that may send any event at any time
NextTrips == HandleEventFor("any", Crowd) \/ CrowdAdvance

SpecTrips == InitCrowd /\ [][NextTrips]_vars

\* the pedestrians of the crowd now on the map, each person at most once
CrowdWalkerLists ==
    { ws \in UNION { [1..n -> { Agent(Some(p), pos) : p \in Crowd, pos \in {<<1, 1>>, <<3, 3>>} }]
                     : n \in 0..Cardinality(Crowd) } :
        \A i, j \in 1..Len(ws) : i # j => ws[i].person # ws[j].person }

\* a Poll tick of the crowd
CrowdPoll ==
    /\ StepGuard
    /\ \E walkers \in CrowdWalkerLists :
          \E r \in poll(concentration, pop, scheduler, now, walkers) :
             /\ concentration' = r.grid
             /\ pop' = r.pop
             /\ scheduler' = r.scheduler
             /\ fault' = r.fault
    /\ UNCHANGED <<initialized, ledgers, person_to_bus, now>>

\* the crowd with a host that keeps to the event protocol and polls
NextContact == HandleEventFor("protocol", Crowd) \/ CrowdAdvance \/ CrowdPoll

SpecContact == InitCrowd /\ [][NextContact]_vars

----------------------------------------------------------------------------
(* The core with its generator: self.rng is a XorShiftRng, a state that      *)
(* fixes every value drawn from it.  Here the generator is the sequence of   *)
(* the raw values it will give, and `last.ret` holds it between the calls    *)

RngLen == 4
Seeds == [1..RngLen -> {0, 1}]

Drawn(val, rng) == [val |-> val, rng |-> rng]

\* XorShiftRng::next_u32: the value drawn and the generator after the draw
XorShiftRng_next(rng) == { Drawn(Head(rng), Append(Tail(rng), Head(rng))) }

\* rng.gen_bool(n / d): probability 1 draws nothing, any other compares a drawn value
Rng_gen_bool(rng, n, d) ==
    IF n >= d
    THEN { Drawn(TRUE, rng) }
    ELSE { Drawn(n > 0 /\ r.val = 1, r.rng) : r \in XorShiftRng_next(rng) }

\* get_time_normal sampling from a generator of the thread instead of the one passed in
Rng_get_time_normal_ThreadRng(rng) ==
    { Drawn(v, r.rng) : v \in get_time_normal, r \in XorShiftRng_next(rng) }

\* get_time_normal: normal.sample(rng), one of the two samples of get_time_normal
Rng_get_time_normal(rng) ==
    { Drawn(IF r.val = 1 THEN 1 ELSE 0 - 1, r.rng) : r \in XorShiftRng_next(rng) }

Seeded(res, rng) == [res |-> res, rng |-> rng]

\* Event::next with the generator: the results are those of Event_next, each with the
\* generator it leaves
Event_next_rng(ev, t, rng) ==
    CASE ev.s = "Exposition" ->
            { Seeded(Outcome(Exposed(MkEvent("Incubation", ev.p_hosp, ev.p_death,
                                             AnyTime_add(t, d.val)),
                                     AnyTime_into(t)),
                             Some(AnyTime_into(AnyTime_add(t, d.val)))), d.rng)
                : d \in Rng_get_time_normal(rng) }
      [] ev.s = "Incubation" ->
            UNION { { Seeded(Outcome(Infectious(MkEvent(IF b.val THEN "Recovery"
                                                                  ELSE "Hospitalization",
                                                        ev.p_hosp, ev.p_death,
                                                        AnyTime_add(t, d.val)),
                                                AnyTime_into(t)),
                                     Some(AnyTime_into(AnyTime_add(t, d.val)))), d.rng)
                        : d \in Rng_get_time_normal(b.rng) }
                    : b \in Rng_gen_bool(rng, ev.p_death, 100) }
      [] ev.s = "Hospitalization" ->
            UNION { { Seeded(Outcome(Hospitalized(MkEvent(IF b.val THEN "Recovery" ELSE "Death",
                                                          ev.p_hosp, ev.p_death,
                                                          AnyTime_add(t, d.val)),
                                                  AnyTime_into(t)),
                                     Some(AnyTime_into(AnyTime_add(t, d.val)))), d.rng)
                        : d \in Rng_get_time_normal(b.rng) }
                    : b \in Rng_gen_bool(rng, ev.p_hosp, 100) }
      [] ev.s = "Death" -> { Seeded(Outcome(Dead(AnyTime_into(t)), None), rng) }
      [] ev.s = "Recovery" -> { Seeded(Outcome(Recovered(AnyTime_into(t)), None), rng) }

State_next_rng(state, t, rng) ==
    CASE state.tag = "Sane" -> { Seeded(Outcome(state, Some(state.time)), rng) }
      [] state.tag \in {"Exposed", "Infectious", "Hospitalized"} -> Event_next_rng(state.ev, t, rng)
      [] state.tag \in {"Recovered", "Dead"} -> { Seeded(Outcome(state, None), rng) }

State_start_now_rng(state, t, rng) ==
    IF state.tag = "Sane" THEN Event_next_rng(state.ev, t, rng) ELSE {}

\* get_time_exp: normal.sample(rng), one of the two samples of get_time_exp
Rng_get_time_exp(rng) ==
    { Drawn(IF r.val = 1 THEN MaxTime + 1 ELSE 1, r.rng) : r \in XorShiftRng_next(rng) }

State_start_rng(state, t, overlap, rng) ==
    IF state.tag = "Sane"
    THEN UNION { IF overlap >= e.val
                 THEN Event_next_rng(state.ev, t, e.rng)
                 ELSE { Seeded(Outcome(state, None), e.rng) }
                 : e \in Rng_get_time_exp(rng) }
    ELSE {}

State_next_default_rng(state, default, rng) ==
    CASE state.tag = "Sane" ->
            { Seeded(Outcome(Sane(state.ev, AnyTime_into(default)),
                             Some(AnyTime_into(default))), rng) }
      [] state.tag \in {"Exposed", "Infectious", "Hospitalized"} ->
            Event_next_rng(state.ev, default, rng)
      [] state.tag = "Recovered" -> { Seeded(Outcome(Recovered(AnyTime_into(default)), None), rng) }
      [] state.tag = "Dead" -> { Seeded(Outcome(Dead(AnyTime_into(default)), None), rng) }

\* the body of initialize's loop for one person, drawing from self.rng
InitPerson_rng(p, rng) ==
    LET state == State_new(P_HOSP_INI, P_DEATH_INI)
    IN  UNION {
          IF ~exposed.val
          THEN { Seeded(Outcome(state, None), exposed.rng) }
          ELSE UNION {
                 UNION { IF infectious.val
                         THEN State_next_default_rng(o.res.state, AnyTime_from(START_OF_DAY),
                                                     infectious.rng)
                         ELSE { Seeded(o.res, infectious.rng) }
                         : infectious \in Rng_gen_bool(o.rng, I_RATIO, 100) }
                 : o \in State_start_rng(state, AnyTime_from(START_OF_DAY), DURATION_MAX,
                                         exposed.rng) }
          : exposed \in Rng_gen_bool(rng, E_RATIO, 100) }

RECURSIVE initialize_rng(_, _, _, _)
initialize_rng(pp, sc, population, rng) ==
    IF population = << >>
    THEN { Seeded(Res(pp, sc, "none"), rng) }
    ELSE UNION { LET r == PushAndInsert(pp, sc, Head(population), o.res)
                 IN  IF r.fault # "none"
                     THEN { Seeded(r, o.rng) }
                     ELSE initialize_rng(r.pop, r.scheduler, Tail(population), o.rng)
                 : o \in InitPerson_rng(Head(population), rng) }

transition_rng(pp, sc, t, person, rng) ==
    { Seeded(PushAndInsert(pop_remove(pp, person), sc, person, o.res), o.rng)
      : o \in State_next_rng(pp[person], AnyTime_from(t), rng) }

become_exposed_rng(pp, sc, t, overlap, person, rng) ==
    LET state == pp[person]
        rest == pop_remove(pp, person)
    IN  IF State_get_event_time(state) = None
        THEN { Seeded(Res(rest, sc, "unwrap"), rng) }
        ELSE IF unwrap(State_get_event_time(state)) # INFINITY
        THEN { Seeded(Res(rest, sc, "assert_eq"), rng) }
        ELSE IF State_start_is_err(state)
        THEN { Seeded(Res(rest, sc, "unwrap"), rng) }
        ELSE { Seeded(PushAndInsert(rest, sc, person, out.res), out.rng)
               : out \in State_start_rng(state, AnyTime_from(t), overlap, rng) }

RECURSIVE transmission_rng(_, _, _, _, _, _)
transmission_rng(pp, sc, t, person, other_occupants, rng) ==
    IF other_occupants = << >>
    THEN { Seeded(Res(pp, sc, "none"), rng) }
    ELSE LET other == Head(other_occupants)[1]
             overlap == Head(other_occupants)[2]
             pid == infectious_contact(pp, person, other)
         IN  IF pid = None
             THEN transmission_rng(pp, sc, t, person, Tail(other_occupants), rng)
             ELSE UNION { IF r.res.fault # "none"
                          THEN { r }
                          ELSE transmission_rng(r.res.pop, r.res.scheduler, t, person,
                                                Tail(other_occupants), r.rng)
                          : r \in become_exposed_rng(pp, sc, t, overlap, unwrap(pid), rng) }

RECURSIVE pedestrian_transmission_rng(_, _, _, _, _, _, _)
pedestrian_transmission_rng(pp, sc, g, t, sane_walkers, dx, rng) ==
    IF sane_walkers = << >>
    THEN { Seeded(Res(pp, sc, "none"), rng) }
    ELSE LET p == Head(sane_walkers)[1]
             x == CellX(Head(sane_walkers)[2], dx)
             y == CellY(Head(sane_walkers)[2], dx)
             state == pp[p]
             rest == pop_remove(pp, p)
         IN  IF ~Grid_in_data(g, x, y)
             THEN { Seeded(Res(pp, sc, "index_out_of_bounds"), rng) }
             ELSE IF gen_bool_panics(Grid_at(g, x, y), 100 * MILLI)
             THEN { Seeded(Res(pp, sc, "gen_bool"), rng) }
             ELSE UNION {
                 IF ~hit.val
                 THEN pedestrian_transmission_rng(pp, sc, g, t, Tail(sane_walkers), dx, hit.rng)
                 ELSE IF State_get_event_time(state) = None
                 THEN { Seeded(Res(rest, sc, "unwrap"), hit.rng) }
                 ELSE IF unwrap(State_get_event_time(state)) # INFINITY
                 THEN { Seeded(Res(rest, sc, "assert_eq"), hit.rng) }
                 ELSE IF State_start_is_err(state)
                 THEN { Seeded(Res(rest, sc, "unwrap"), hit.rng) }
                 ELSE UNION { LET r == PushAndInsert(rest, sc, p, out.res)
                              IN  IF r.fault # "none"
                                  THEN { Seeded(r, out.rng) }
                                  ELSE pedestrian_transmission_rng(r.pop, r.scheduler, g, t,
                                                                   Tail(sane_walkers), dx, out.rng)
                              : out \in State_start_now_rng(state, AnyTime_from(t), hit.rng) }
                 : hit \in Rng_gen_bool(rng, Grid_at(g, x, y), 100 * MILLI) }

poll_rng(g, pp, sc, t, walkers, rng) ==
    IF \E i \in 1..Len(walkers) : walkers[i].person = None
    THEN { Seeded(PollRes(g, pp, sc, "unwrap"), rng) }
    ELSE LET infectious_ped == InfectiousPed(pp, walkers)
             sane_ped == SanePed(pp, walkers)
             sourced == IF Len(infectious_ped) > 0
                        THEN Grid_add_sources(g, infectious_ped, SPACING, DT_SECONDS, MAG_PER_SEC)
                        ELSE GridRes(g, "none")
             diffused == Grid_diffuse(sourced.grid, KAPPA_MILLI, DECAY_MILLI, SPACING, DT_SECONDS)
             absorbed == Grid_absorb(diffused.grid, ABSORB_MILLI)
         IN  IF sourced.fault # "none"
             THEN { Seeded(PollRes(sourced.grid, pp, sc, sourced.fault), rng) }
             ELSE IF diffused.fault # "none"
             THEN { Seeded(PollRes(diffused.grid, pp, sc, diffused.fault), rng) }
             ELSE { IF r.res.fault # "none"
                    THEN Seeded(PollRes(absorbed, r.res.pop, r.res.scheduler, r.res.fault), r.rng)
                    ELSE Seeded(PollRes(absorbed, r.res.pop,
                                        push(r.res.scheduler, t + delta_t, Cmd_Poll), "none"),
                                r.rng)
                    : r \in pedestrian_transmission_rng(pp, sc, absorbed, t, sane_ped, SPACING,
                                                        rng) }

\* handle_cmd for Poll and Transition: the grid, the population, the scheduler, the panic
\* and the generator afterwards
handle_cmd_rng(g, pp, sc, t, cmd, walkers, rng) ==
    IF cmd.kind = "Poll"
    THEN poll_rng(g, pp, sc, t, walkers, rng)
    ELSE { Seeded(PollRes(g, r.res.pop, r.res.scheduler, r.res.fault), r.rng)
           : r \in transition_rng(pp, sc, t, cmd.person, rng) }

Rng == unwrap(last.ret)

InitSeeded ==
    /\ initialized = FALSE
    /\ pop = << >>
    /\ concentration = Grid_zero(NX, NY)
    /\ bldgs = SharedSpace_new
    /\ sidewalks = SharedSpace_new
    /\ remote_bldgs = SharedSpace_new
    /\ bus_stops = SharedSpace_new
    /\ buses = SharedSpace_new
    /\ person_to_bus = << >>
    /\ scheduler = EmptyBag
    /\ now = START_OF_DAY
    /\ fault = "none"
    /\ \E rng \in Seeds : last = Call("new", 0, "", Some(rng))
    /\ nsteps = 0

InitializeSeeded ==
    /\ fault = "none"
    /\ ~initialized
    /\ initialized' = TRUE
    /\ \E r \in initialize_rng(pop, scheduler, Population, Rng) :
          /\ pop' = r.res.pop
          /\ scheduler' = r.res.scheduler
          /\ fault' = r.res.fault
          /\ last' = Call("initialize", 0, "", Some(r.rng))
    /\ UNCHANGED <<concentration, ledgers, person_to_bus, now, nsteps>>

\* the scheduler hands over the earliest command once its time has come, and the core
\* handles it with its generator
DeliverSeeded ==
    \E c \in Pending(scheduler), walkers \in WalkerLists :
       /\ Due(c)
       /\ Earliest(c)
       /\ Budget
       /\ c.cmd.kind \in {"Poll", "Transition"}
       /\ \E r \in handle_cmd_rng(concentration, pop, scheduler (-) SetToBag({c}), now, c.cmd,
                                  walkers, Rng) :
             /\ concentration' = r.res.grid
             /\ pop' = r.res.pop
             /\ scheduler' = r.res.scheduler
             /\ fault' = r.res.fault
             /\ last' = Call(c.cmd.kind, c.cmd.person, "", Some(r.rng))
       /\ UNCHANGED <<initialized, ledgers, person_to_bus, now>>

\* Event::PersonLeavesBuilding handled with the generator
PersonLeavesBuildingSeeded(p, bldg) ==
    LET left == person_leaves_space(bldgs, now, p, bldg)
    IN  /\ Inside(bldgs, p, bldg)
        /\ Budget
        /\ bldgs' = left.occ
        /\ \E r \in transmission_rng(pop, scheduler, now, p, unwrap(left.ret), Rng) :
              /\ pop' = r.res.pop
              /\ scheduler' = r.res.scheduler
              /\ fault' = r.res.fault
              /\ last' = Call("PersonLeavesBuilding", p, bldg, Some(r.rng))
        /\ UNCHANGED <<initialized, concentration, sidewalks, remote_bldgs, bus_stops, buses,
                       person_to_bus, now>>

NextSeeded ==
    \/ InitializeSeeded
    \/ \E p \in Persons, bldg \in BuildingIDs :
          PersonEntersBuilding("protocol", p, bldg) \/ PersonLeavesBuildingSeeded(p, bldg)
    \/ StartPolling
    \/ Advance
    \/ DeliverSeeded

SpecSeeded == InitSeeded /\ [][NextSeeded]_vars

----------------------------------------------------------------------------
(* State::start and State::start_now called on states of every kind, and    *)
(* become_exposed called on the persons holding them                        *)

InitState ==
    /\ initialized = TRUE
    /\ pop \in [Persons -> CrowdStates]
    /\ concentration = Grid_zero(NX, NY)
    /\ bldgs = SharedSpace_new
    /\ sidewalks = SharedSpace_new
    /\ remote_bldgs = SharedSpace_new
    /\ bus_stops = SharedSpace_new
    /\ buses = SharedSpace_new
    /\ person_to_bus = << >>
    /\ scheduler = EmptyBag
    /\ now = START_OF_DAY
    /\ fault = "none"
    /\ last = Call("new", 0, "", None)
    /\ nsteps = 0

\* a call whose Result is kept: Ok((state, time)) replaces the person's state, Err (no
\* result) leaves it; last.ret holds the overlap passed and the Result, None for Err
StateCall(op, person, overlap, results) ==
    /\ fault = "none"
    /\ nsteps < MaxSteps
    /\ nsteps' = nsteps + 1
    /\ IF results = {}
       THEN /\ last' = Call(op, person, "", Some(<<overlap, None>>))
            /\ UNCHANGED pop
       ELSE \E out \in results :
               /\ last' = Call(op, person, "", Some(<<overlap, Some(out)>>))
               /\ pop' = [pop EXCEPT ![person] = out.state]
    /\ UNCHANGED <<initialized, concentration, ledgers, person_to_bus, scheduler, now, fault>>

\* state.start(now, overlap, rng)
StateStart ==
    \E person \in Persons, overlap \in 0..(MaxTime + 1) :
        StateCall("start", person, overlap,
                  State_start(pop[person], AnyTime_from(now), overlap))

\* state.start_now(now, rng)
StateStartNow ==
    \E person \in Persons :
        StateCall("start_now", person, 0, State_start_now(pop[person], AnyTime_from(now)))

\* self.become_exposed(now, overlap, person, scheduler)
BecomeExposed ==
    \E person \in Persons, overlap \in 0..(MaxTime + 1) :
        /\ fault = "none"
        /\ nsteps < MaxSteps
        /\ nsteps' = nsteps + 1
        /\ \E r \in become_exposed(pop, scheduler, now, overlap, person) :
              /\ pop' = r.pop
              /\ scheduler' = r.scheduler
              /\ fault' = r.fault
        /\ last' = Call("become_exposed", person, "", Some(<<overlap, None>>))
        /\ UNCHANGED <<initialized, concentration, ledgers, person_to_bus, now>>

NextState ==
    \/ StateStart
    \/ StateStartNow
    \/ BecomeExposed

SpecState == InitState /\ [][NextState]_vars

----------------------------------------------------------------------------
(* The properties *)

Tag(pp, p) == pp[p].tag
Terminal(pp, p) == Tag(pp, p) \in {"Recovered", "Dead"}
Progression ==
    { <<"Sane", "Exposed">>, <<"Exposed", "Infectious">>, <<"Infectious", "Recovered">>,
      <<"Infectious", "Hospitalized">>, <<"Hospitalized", "Recovered">>,
      <<"Hospitalized", "Dead">> }

\* C1: once initialize has run, and after every handled event and command, the
\* five counts add up to count_total and to the number of persons given to
\* initialize, the population map holds exactly those persons, and each of
\* them is counted by exactly one of the five counts.
C1_CountsPartition ==
    (initialized /\ fault = "none") =>
        /\ count_sane(pop) + count_exposed(pop) + count_infected(pop)
             + count_recovered(pop) + count_dead(pop) = count_total(pop)
        /\ count_total(pop) = Len(Population)
        /\ DOMAIN pop = Persons
        /\ \A p \in Persons :
              Cardinality({ k \in 1..5 :
                 <<pop[p].tag = "Sane", pop[p].tag = "Exposed", is_infectious(pop, p),
                   is_recovered(pop, p), is_dead(pop, p)>>[k] }) = 1

C1_Witness ==
    /\ initialized /\ fault = "none"
    /\ nsteps >= 2
    /\ count_dead(pop) = 1
    /\ count_sane(pop) = 1

\* C2: a person who is Recovered or Dead keeps that very state across every
\* step, and a Transition for such a person returns the same population and
\* pushes no command.
C2_TerminalAbsorbing ==
    [][\A p \in DOMAIN pop :
          Terminal(pop, p) =>
             /\ p \in DOMAIN pop'
             /\ pop'[p] = pop[p]
             /\ is_recovered(pop', p) = is_recovered(pop, p)
             /\ is_dead(pop', p) = is_dead(pop, p)
             /\ State_next(pop[p], AnyTime_from(now)) = { Outcome(pop[p], None) }
             /\ StaleTransitionOf(p) => (pop' = pop /\ scheduler' = scheduler /\ fault' = "none")]_vars

C2_Witness ==
    /\ last.op = "Transition"
    /\ last.space \in {"Recovered", "Dead"}
    /\ Terminal(pop, last.person)
    /\ fault = "none"

\* C3: after initialize every change of a person's disease state is one step
\* of Sane -> Exposed -> Infectious -> {Recovered, Hospitalized},
\* Hospitalized -> {Recovered, Dead}, and a mobility event or a Poll only ever
\* turns Sane into Exposed.
C3_ProgressionSteps ==
    [][initialized =>
          \A p \in Persons :
             Tag(pop', p) # Tag(pop, p) =>
                /\ <<Tag(pop, p), Tag(pop', p)>> \in Progression
                /\ (HandleEvent("protocol") \/ \E c \in Pending(scheduler) :
                                                  c.cmd = Cmd_Poll /\ DeliverCmd(c))
                      => <<Tag(pop, p), Tag(pop', p)>> = <<"Sane", "Exposed">>]_vars

C3_Witness ==
    \E p, q \in DOMAIN pop :
       /\ Tag(pop, p) = "Exposed" /\ pop[p].time = 1
       /\ is_infectious(pop, q)
       /\ fault = "none"

\* C4: in the state initialize leaves, every person who is not Sane has
\* exactly one Transition command in the scheduler, at the time of that
\* person's next event.
C4_OneTransitionAfterInitialize ==
    [][(~initialized /\ initialized') =>
          \A p \in Persons :
             Tag(pop', p) # "Sane" =>
                LET mine == { c \in Pending(scheduler') : c.cmd = Cmd_Transition(p) }
                IN  /\ Cardinality(mine) = 1
                    /\ \A c \in mine :
                          /\ CopiesIn(c, scheduler') = 1
                          /\ c.time = AnyTime_into(pop'[p].ev.t)]_vars

C4_Witness ==
    /\ initialized /\ nsteps = 0 /\ ~HasPoll(scheduler)
    /\ \E p, q \in Persons : Tag(pop, p) = "Infectious" /\ Tag(pop, q) = "Exposed"
    /\ BagCardinality(scheduler) = 2

\* C5: with a scheduler that delivers each pushed command once, every pending
\* Transition(p) belongs to a person whose state has a next event, at the
\* command's time.
C5_PendingTransitionMatches ==
    \A c \in Pending(scheduler) :
       c.cmd.kind = "Transition" =>
          /\ c.cmd.person \in DOMAIN pop
          /\ HasEvent(pop[c.cmd.person])
          /\ AnyTime_into(pop[c.cmd.person].ev.t) = c.time

C5_Witness ==
    \E c \in Pending(scheduler) :
       /\ c.cmd.kind = "Transition"
       /\ Tag(pop, c.cmd.person) = "Hospitalized"
       /\ nsteps >= 1

\* C6: a Sane person's next event is at +infinity in every state, so is_sane
\* holds for exactly the persons count_sane counts.
C6_SaneHasNoEventTime ==
    /\ \A p \in DOMAIN pop : Tag(pop, p) = "Sane" => pop[p].ev.t = INFINITY
    /\ Cardinality({ p \in DOMAIN pop : is_sane(pop, p) }) = count_sane(pop)

C6_Witness ==
    \E p \in Persons :
       /\ last = Call("Transition", p, "Sane", None)
       /\ is_sane(pop, p)
       /\ \E c \in Pending(scheduler) : c.cmd = Cmd_Transmission(p)

OthersOf(list, person) == SelectSeq(list, LAMBDA e : e[1] # person)
EntriesOf(list, person) == SelectSeq(list, LAMBDA e : e[1] = person)
ExpectedOverlaps(list, person, entry_time, t) ==
    [i \in 1..Len(OthersOf(list, person)) |->
        <<OthersOf(list, person)[i][1],
          t - (IF entry_time >= OthersOf(list, person)[i][2]
               THEN entry_time ELSE OthersOf(list, person)[i][2])>>]
AtMostOnce(occ) ==
    \A space \in DOMAIN occ, person \in SpacePersons \cup Persons :
       Len(EntriesOf(occ[space], person)) <= 1

\* C7: person_leaves_space for a person with an entry (person, entry_time) in
\* the space returns, for the other occupants in the order they entered, the
\* pairs (q, now - max(entry_time, q_entry)); the only occupant of a space gets
\* the empty list.
C7_LeaveReturnsOverlaps ==
    [][\A person \in SpacePersons, space \in SpaceIDs :
          (SpaceLeave(person, space) /\ Inside(bldgs, person, space)) =>
             /\ \E i \in 1..Len(bldgs[space]) :
                   /\ bldgs[space][i][1] = person
                   /\ last'.ret = Some(ExpectedOverlaps(bldgs[space], person,
                                                        bldgs[space][i][2], now))
             /\ Len(bldgs[space]) = 1 => last'.ret = Some(<< >>)]_vars

C7_Witness ==
    /\ last.op = "person_leaves_space"
    /\ last.ret # None
    /\ Len(unwrap(last.ret)) = 2
    /\ unwrap(last.ret)[1][2] > unwrap(last.ret)[2][2]
    /\ unwrap(last.ret)[2][2] > 0

\* C8: person_leaves_space for a person with no entry in the space returns
\* none and leaves every occupant list of every space as it was.
C8_LeaveWithoutEntry ==
    [][\A person \in SpacePersons, space \in SpaceIDs :
          (SpaceLeave(person, space) /\ ~Inside(bldgs, person, space)) =>
             /\ last'.ret = None
             /\ \A other \in DOMAIN bldgs :
                   other \in DOMAIN bldgs' /\ bldgs'[other] = bldgs[other]
             /\ Occupants(bldgs', space) = Occupants(bldgs, space)]_vars

C8_Witness ==
    /\ last.op = "person_leaves_space"
    /\ last.ret = None
    /\ \E other \in DOMAIN bldgs : other # last.space /\ Inside(bldgs, last.person, other)
    /\ Len(Occupants(bldgs, last.space)) >= 1

\* C9 as stated: after any sequence of enter and leave calls a person appears
\* at most once in the occupant list of a space.
C9_AtMostOncePerSpace == AtMostOnce(bldgs)

\* C9, amended: a call keeps "at most once per space" unless it is
\* person_enters_space for a person already in that space; so the property
\* holds after any sequence of calls in which nobody enters a space they occupy.
C9_AtMostOnceUnlessDoubleEnter ==
    [][(/\ AtMostOnce(bldgs)
        /\ ~\E person \in SpacePersons, space \in SpaceIDs :
               SpaceEnter(person, space) /\ Inside(bldgs, person, space))
          => AtMostOnce(bldgs')]_vars

C9_Witness ==
    /\ AtMostOnce(bldgs)
    /\ last.op = "person_enters_space"
    /\ Len(Occupants(bldgs, last.space)) >= 2
    /\ bldgs[last.space][Len(bldgs[last.space])] = <<last.person, now>>
    /\ now >= 1

IsPrefix(a, b) == Len(a) <= Len(b) /\ SubSeq(b, 1, Len(a)) = a
NoEntryRemoved(occ, occ2) ==
    \A space \in DOMAIN occ : space \in DOMAIN occ2 /\ IsPrefix(occ[space], occ2[space])
\* every entry of the person is gone from the space, nothing else has changed
LeftBy(occ, occ2, person, space) ==
    /\ Inside(occ, person, space)
    /\ DOMAIN occ2 = DOMAIN occ
    /\ occ2[space] = OthersOf(occ[space], person)
    /\ \A other \in DOMAIN occ \ {space} : occ2[other] = occ[other]
OneEntryLess(occ, occ2, space) == Len(occ2[space]) = Len(occ[space]) - 1

\* the steps of handle_event that call person_leaves_space on each ledger
LeavesBldgs(p, space) == space \in BuildingIDs /\ PersonLeavesBuilding("any", p, space)
LeavesSidewalks(p, space) == space \in LaneIDs /\ AgentLeavesLane("any", p, space)
LeavesRemoteBldgs(p, space) ==
    space \in OffMapLocations /\ PersonLeavesRemoteBuilding("any", p, space)
LeavesBusStops(p, space) ==
    space \in BusStopIDs /\ \E bus \in CarIDs : RidingBus("any", p, space, bus)
LeavesBuses(p, space) ==
    p \in DOMAIN person_to_bus /\ person_to_bus[p] = space /\ Walking(p)

\* C10 as stated: entries leave a ledger only in a successful
\* person_leaves_space, which removes exactly one entry, the person's, and
\* changes nothing else in the ledger.
C10_LeaveRemovesExactlyOne ==
    [][/\ ~NoEntryRemoved(bldgs, bldgs') =>
             \E p \in Persons, space \in DOMAIN bldgs :
                LeavesBldgs(p, space) /\ LeftBy(bldgs, bldgs', p, space)
                   /\ OneEntryLess(bldgs, bldgs', space)
       /\ ~NoEntryRemoved(sidewalks, sidewalks') =>
             \E p \in Persons, space \in DOMAIN sidewalks :
                LeavesSidewalks(p, space) /\ LeftBy(sidewalks, sidewalks', p, space)
                   /\ OneEntryLess(sidewalks, sidewalks', space)
       /\ ~NoEntryRemoved(remote_bldgs, remote_bldgs') =>
             \E p \in Persons, space \in DOMAIN remote_bldgs :
                LeavesRemoteBldgs(p, space) /\ LeftBy(remote_bldgs, remote_bldgs', p, space)
                   /\ OneEntryLess(remote_bldgs, remote_bldgs', space)
       /\ ~NoEntryRemoved(bus_stops, bus_stops') =>
             \E p \in Persons, space \in DOMAIN bus_stops :
                LeavesBusStops(p, space) /\ LeftBy(bus_stops, bus_stops', p, space)
                   /\ OneEntryLess(bus_stops, bus_stops', space)
       /\ ~NoEntryRemoved(buses, buses') =>
             \E p \in Persons, space \in DOMAIN buses :
                LeavesBuses(p, space) /\ LeftBy(buses, buses', p, space)
                   /\ OneEntryLess(buses, buses', space)]_vars

\* C10, amended: entries leave a ledger only in a successful
\* person_leaves_space, which removes every entry of that person in that space
\* (one, unless the person entered the space more than once) and changes no
\* entry of another occupant or of another space; enter, Transition, Poll and a
\* person's death remove nothing.
C10_LeaveRemovesOnlyThePerson ==
    [][/\ ~NoEntryRemoved(bldgs, bldgs') =>
             \E p \in Persons, space \in DOMAIN bldgs :
                LeavesBldgs(p, space) /\ LeftBy(bldgs, bldgs', p, space)
       /\ ~NoEntryRemoved(sidewalks, sidewalks') =>
             \E p \in Persons, space \in DOMAIN sidewalks :
                LeavesSidewalks(p, space) /\ LeftBy(sidewalks, sidewalks', p, space)
       /\ ~NoEntryRemoved(remote_bldgs, remote_bldgs') =>
             \E p \in Persons, space \in DOMAIN remote_bldgs :
                LeavesRemoteBldgs(p, space) /\ LeftBy(remote_bldgs, remote_bldgs', p, space)
       /\ ~NoEntryRemoved(bus_stops, bus_stops') =>
             \E p \in Persons, space \in DOMAIN bus_stops :
                LeavesBusStops(p, space) /\ LeftBy(bus_stops, bus_stops', p, space)
       /\ ~NoEntryRemoved(buses, buses') =>
             \E p \in Persons, space \in DOMAIN buses :
                LeavesBuses(p, space) /\ LeftBy(buses, buses', p, space)
       /\ (~(\E p \in Persons : Walking(p)) /\ ~(\E p \in Persons, stop \in BusStopIDs, bus \in CarIDs :
                                                    RidingBus("any", p, stop, bus))
           /\ ~(\E p \in Persons, space \in BuildingIDs : PersonLeavesBuilding("any", p, space))
           /\ ~(\E p \in Persons, space \in LaneIDs : AgentLeavesLane("any", p, space))
           /\ ~(\E p \in Persons, space \in OffMapLocations :
                   PersonLeavesRemoteBuilding("any", p, space)))
          => /\ NoEntryRemoved(bldgs, bldgs') /\ NoEntryRemoved(sidewalks, sidewalks')
             /\ NoEntryRemoved(remote_bldgs, remote_bldgs')
             /\ NoEntryRemoved(bus_stops, bus_stops') /\ NoEntryRemoved(buses, buses')]_vars

\* a leave from a building has exposed somebody, and one occupant is still there
C10_Witness ==
    /\ initialized /\ fault = "none"
    /\ concentration = Grid_zero(NX, NY)
    /\ sidewalks = << >> /\ remote_bldgs = << >> /\ bus_stops = << >> /\ buses = << >>
    /\ \E bldg \in DOMAIN bldgs : Len(bldgs[bldg]) = 1
    /\ \E q \in Persons : Tag(pop, q) = "Exposed" /\ pop[q].time = 1 /\ pop[q].ev.t # INFINITY

\* person p has left a space of the ledger, and q is the Sane member of a pair
\* (p, remaining occupant) whose other member is Infectious or Hospitalized
ExposedByLeave(occ, occ2, p, q) ==
    \E space \in DOMAIN occ :
       /\ LeftBy(occ, occ2, p, space)
       /\ pop[q].tag = "Sane"
       /\ IF q = p
          THEN \E i \in 1..Len(OthersOf(occ[space], p)) :
                  is_infectious(pop, OthersOf(occ[space], p)[i][1])
          ELSE /\ \E i \in 1..Len(OthersOf(occ[space], p)) : OthersOf(occ[space], p)[i][1] = q
               /\ is_infectious(pop, p)

\* C11: when an event is handled, a person's state changes only if a person
\* has left a space and the one whose state changes is the Sane member of a
\* pair (leaver, remaining occupant) whose other member is Infectious or
\* Hospitalized; the commands pushed are for those persons only.
C11_OnlySaneInfectiousPairs ==
    [][/\ \A q \in DOMAIN pop :
             pop'[q] # pop[q] =>
                \E p \in DOMAIN pop :
                   \/ ExposedByLeave(bldgs, bldgs', p, q)
                   \/ ExposedByLeave(sidewalks, sidewalks', p, q)
                   \/ ExposedByLeave(remote_bldgs, remote_bldgs', p, q)
                   \/ ExposedByLeave(bus_stops, bus_stops', p, q)
                   \/ ExposedByLeave(buses, buses', p, q)
       /\ \A c \in Pending(scheduler') :
             CopiesIn(c, scheduler') > CopiesIn(c, scheduler) =>
                c.cmd.person \in DOMAIN pop /\ pop'[c.cmd.person] # pop[c.cmd.person]]_vars

\* the Infectious person 1 has left the building: 2 was exposed, 3 was not
C11_Witness ==
    /\ DOMAIN pop = Crowd
    /\ "bldg1" \in DOMAIN bldgs
    /\ bldgs["bldg1"] = <<<<2, 0>>, <<3, 0>>>>
    /\ pop[1].tag = "Infectious"
    /\ pop[2].tag = "Exposed" /\ pop[2].time = 1
    /\ pop[3].tag = "Sane"
    /\ fault = "none"

Grew(occ, occ2) ==
    /\ NoEntryRemoved(occ, occ2)
    /\ \E space \in DOMAIN occ2 : Len(occ2[space]) > Len(Occupants(occ, space))
\* an enter event has been handled: a ledger has one entry more, none has lost
\* an entry, nobody has boarded or left a bus
EnterStep ==
    /\ Grew(bldgs, bldgs') \/ Grew(sidewalks, sidewalks') \/ Grew(remote_bldgs, remote_bldgs')
          \/ Grew(bus_stops, bus_stops')
    /\ NoEntryRemoved(bldgs, bldgs') /\ NoEntryRemoved(sidewalks, sidewalks')
    /\ NoEntryRemoved(remote_bldgs, remote_bldgs') /\ NoEntryRemoved(bus_stops, bus_stops')
    /\ buses' = buses
    /\ person_to_bus' = person_to_bus

\* C12: handling an enter event (lane, building, remote building,
\* WaitingForBus) leaves every disease state, the grid and the scheduler as
\* they were and raises no fault, whoever is already in the space and since when.
C12_EnterChangesNoDiseaseState ==
    [][EnterStep => /\ pop' = pop
                    /\ concentration' = concentration
                    /\ scheduler' = scheduler
                    /\ fault' = "none"]_vars

\* an Infectious and a Sane person have shared a building since time 0, the
\* clock has moved on and further events were handled: the Sane one is still Sane
C12_Witness ==
    /\ initialized /\ fault = "none"
    /\ now = 1 /\ nsteps = 3
    /\ \E p, q \in DOMAIN pop, bldg \in DOMAIN bldgs :
          /\ is_sane(pop, p) /\ is_infectious(pop, q)
          /\ bldgs[bldg] = <<<<q, 0>>, <<p, 0>>>>
    /\ \E lid \in DOMAIN sidewalks : Len(sidewalks[lid]) = 1 /\ sidewalks[lid][1][2] = 1

\* the transmission of person p, who entered at entry_time, against the others
\* of the list has turned pop and the scheduler into pop' and scheduler'
TransmittedOnce(list, p) ==
    \E i \in 1..Len(list) :
       /\ list[i][1] = p
       /\ \E r \in transmission(pop, scheduler, now, p,
                                ExpectedOverlaps(list, p, list[i][2], now)) :
             pop' = r.pop /\ scheduler' = r.scheduler /\ fault' = r.fault

\* C13: RidingBus(stop, bus) for a person waiting at the stop takes them out
\* of the stop's ledger and into the bus's, maps them to the bus and runs the
\* transmission once, against the stop's occupants; Walking for a person
\* mapped to a bus takes them out of its ledger and out of the map and runs the
\* transmission once, against the bus's occupants; Walking for anybody else
\* runs none.
C13_BusRide ==
    [][\A p \in DOMAIN pop :
          /\ \A stop \in BusStopIDs, bus \in CarIDs :
                (RidingBus("protocol", p, stop, bus) /\ Inside(bus_stops, p, stop)) =>
                   /\ fault' = "none"
                   /\ ~Inside(bus_stops', p, stop)
                   /\ Inside(buses', p, bus)
                   /\ p \in DOMAIN person_to_bus' /\ person_to_bus'[p] = bus
                   /\ TransmittedOnce(bus_stops[stop], p)
          /\ (Walking(p) /\ p \in DOMAIN person_to_bus) =>
                /\ fault' = "none"
                /\ ~Somewhere(buses', p)
                /\ p \notin DOMAIN person_to_bus'
                /\ TransmittedOnce(buses[person_to_bus[p]], p)
          /\ (Walking(p) /\ p \notin DOMAIN person_to_bus) =>
                pop' = pop /\ scheduler' = scheduler /\ buses' = buses]_vars

\* person 1, who waited at the stop with 2, has ridden the bus with the
\* Infectious 3 and got off: exposed at alighting
C13_Witness ==
    /\ DOMAIN pop = Crowd
    /\ "stop1" \in DOMAIN bus_stops /\ bus_stops["stop1"] = <<<<2, 0>>>>
    /\ "bus1" \in DOMAIN buses /\ buses["bus1"] = <<<<3, 0>>>>
    /\ 1 \notin DOMAIN person_to_bus
    /\ pop[3].tag = "Infectious"
    /\ pop[1].tag = "Exposed" /\ pop[1].time = 2
    /\ fault = "none"

\* the handler has aborted and has neither changed a disease state nor pushed
\* a command
Aborted == fault' # "none" /\ pop' = pop /\ scheduler' = scheduler

\* C14: a leave event for a person with no entry in the space it names (a
\* lane, a building, a remote building, the stop of a RidingBus) aborts the
\* handler, changes no disease state and pushes no command.
C14_LeaveWithoutEntryAborts ==
    [][\A p \in DOMAIN pop :
          /\ \A lid \in LaneIDs :
                (AgentLeavesLane("any", p, lid) /\ ~Inside(sidewalks, p, lid)) => Aborted
          /\ \A bldg \in BuildingIDs :
                (PersonLeavesBuilding("any", p, bldg) /\ ~Inside(bldgs, p, bldg)) => Aborted
          /\ \A loc \in OffMapLocations :
                (PersonLeavesRemoteBuilding("any", p, loc) /\ ~Inside(remote_bldgs, p, loc))
                   => Aborted
          /\ \A stop \in BusStopIDs, bus \in CarIDs :
                (RidingBus("any", p, stop, bus) /\ ~Inside(bus_stops, p, stop))
                   => (Aborted /\ buses' = buses /\ person_to_bus' = person_to_bus)]_vars

\* the third event handled was a leave without an entry, with an Infectious
\* person in the population
C14_Witness ==
    /\ fault = "left_not_inside"
    /\ nsteps = MaxSteps
    /\ \E p \in DOMAIN pop : pop[p].tag = "Infectious"

\* C15: every public operation other than initialize asserts the flag: a call
\* made before initialize is a hard fault.
C15_EveryOperationAsserts ==
    [][(~initialized /\ ~initialized' /\ last' # last) => fault' # "none"]_vars

\* count_total was called before initialize and returned 0
C15_Witness ==
    /\ ~initialized
    /\ fault = "none"
    /\ last = Call("count_total", 0, "", Some(0))

\* the times the steps of initialize returned for person p
ProducedFor(call, p) ==
    IF p \in DOMAIN unwrap(call.ret) THEN unwrap(call.ret)[p] ELSE << >>

InitializeStep == ~initialized /\ initialized' /\ last'.op = "initialize"

\* C16 as stated: every time a start or transition step of initialize
\* produced for a person is pushed as a command for that person.
C16_EveryProducedTimePushed ==
    [][InitializeStep =>
          \A p \in Persons :
             \A i \in 1..Len(ProducedFor(last', p)) :
                [time |-> ProducedFor(last', p)[i], cmd |-> Cmd_Transition(p)]
                   \in Pending(scheduler')]_vars

\* C16, amended: initialize pushes, for every person a step produced a time
\* for, the time of the last step applied to them, once, as a Transition
\* command for that person, and nothing else; the traced initialize inserts
\* and pushes what initialize does.
C16_LastProducedTimePushed ==
    [][InitializeStep =>
          /\ scheduler' =
                SetToBag({ [time |-> ProducedFor(last', p)[Len(ProducedFor(last', p))],
                            cmd |-> Cmd_Transition(p)]
                           : p \in { q \in Persons : ProducedFor(last', q) # << >> } })
          /\ { tr.res : tr \in initialize_produced(pop, scheduler, Population, << >>) }
                = initialize(pop, scheduler, Population)]_vars

\* initialize advanced person 1 to Infectious: start returned one time, the
\* transition another, and only the second is pending
C16_Witness ==
    /\ initialized
    /\ last.op = "initialize"
    /\ 1 \in DOMAIN pop /\ pop[1].tag = "Infectious"
    /\ Len(ProducedFor(last, 1)) = 2
    /\ ProducedFor(last, 1)[1] # ProducedFor(last, 1)[2]
    /\ \A c \in Pending(scheduler) :
          c.cmd = Cmd_Transition(1) => c.time = ProducedFor(last, 1)[2]
    /\ HasTransition(scheduler, 1)

\* the Poll commands pushed so far: those handled and those still pending
PollsPushed ==
    PollTicks + BagCardinality([c \in { d \in DOMAIN scheduler : d.cmd = Cmd_Poll } |-> scheduler[c]])

\* C17: after initialize, with an all-zero grid and no infectious pedestrian,
\* once N Poll ticks are handled every cell is at most the absorption floor,
\* N + 1 Poll commands have been pushed, and no tick has changed a person's
\* state.
C17_QuietPollingLoop ==
    /\ []((initialized /\ fault = "none") =>
             /\ \A i \in DOMAIN concentration.data : concentration.data[i] <= ABSORB_MILLI
             /\ PollsPushed = PollTicks + 1)
    /\ [][PollTicks' = PollTicks + 1 => pop' = pop]_vars

\* two ticks have been handled: each pushed the next Poll, the grid is still
\* zero, and with the host's first push that makes three
C17_Witness ==
    /\ initialized
    /\ fault = "none"
    /\ PollTicks = 2
    /\ PollsPushed = 3
    /\ \A i \in DOMAIN concentration.data : concentration.data[i] = 0

\* the walker list without the entries that hold no person
WithPerson(walkers) == SelectSeq(walkers, LAMBDA a : a.person # None)

\* C18: a Poll tick filters out the walker entries with no person: the tick
\* does what it does on the list without them, and a tick that would complete
\* without them completes.
C18_AbsentPersonFiltered ==
    (initialized /\ fault = "none") =>
       \A walkers \in WalkerLists :
          poll(concentration, pop, scheduler, now, walkers)
             = poll(concentration, pop, scheduler, now, WithPerson(walkers))

\* a Poll tick has ended in the panic of x.person.unwrap()
C18_Witness ==
    /\ initialized
    /\ fault = "unwrap"
    /\ HasPoll(scheduler) = FALSE
    /\ nsteps >= 1

\* C19: the exposure probability of a Poll tick is the concentration over 100
\* clamped to [0, 1]: whatever the concentration has grown to, the tick samples
\* with a valid probability and does not fault.
C19_ProbabilityClamped == fault # "gen_bool"

\* a tick has panicked in gen_bool: a cell holds more than 100
C19_Witness ==
    /\ fault = "gen_bool"
    /\ \E i \in DOMAIN concentration.data : concentration.data[i] > 100 * MILLI

\* the cell (ix, iy) of the position lies outside the grid
OutsideGrid(g, pos) == CellX(pos, SPACING) >= g.width \/ CellY(pos, SPACING) >= g.height

Nearest(i, n) == IF i >= n THEN n - 1 ELSE i

\* the grid with the source of one walker added to the valid cell nearest to
\* the cell of its position
Clamped(g, pos) ==
    LET x == Nearest(CellX(pos, SPACING), g.width)
        y == Nearest(CellY(pos, SPACING), g.height)
    IN  Grid_set(g, x, y, Grid_at(g, x, y) + DT_SECONDS * MAG_PER_SEC * MILLI)

\* C20: add_sources given a position whose cell lies outside the grid either
\* rejects it, leaving the grid as it was, or adds the source to the nearest
\* valid cell; never to another cell of the grid.
C20_OutsideRejectedOrClamped ==
    \A pos \in WalkerPositions :
       OutsideGrid(concentration, pos) =>
          LET r == Grid_add_sources(concentration, << pos >>, SPACING, DT_SECONDS, MAG_PER_SEC)
          IN  \/ r.fault # "none" /\ r.grid = concentration
              \/ r.fault = "none" /\ r.grid = Clamped(concentration, pos)

\* a tick has completed with a source in cell (0, 1), which holds no walker
\* position: it is the source of the walker at x = MAP_WIDTH, whose cell is
\* (NX, 0)
C20_Witness ==
    /\ fault = "none"
    /\ \A pos \in WalkerPositions : <<CellX(pos, SPACING), CellY(pos, SPACING)>> # <<0, 1>>
    /\ Grid_at(concentration, 0, 1) > 0
    /\ HasPoll(scheduler)

\* the call made in this step, and its arguments
Called(op) == last'.op = op /\ nsteps' = nsteps + 1
Args == unwrap(last'.ret)

Neighbours(g, x, y) ==
    Grid_at(g, x + 1, y) + Grid_at(g, x - 1, y) + Grid_at(g, x, y + 1) + Grid_at(g, x, y - 1)

\* C21: diffuse sets every interior cell to its pre-step value times
\* 1 - 4 dt kappa / dx^2 - dt decay plus dt kappa / dx^2 times the sum of the
\* pre-step values of its four neighbours, and leaves every boundary cell as
\* it was.
C21_DiffuseFromSnapshot ==
    [][(Called("diffuse") /\ fault' = "none") =>
          LET g == concentration
              kappa == Args[1]
              decay == Args[2]
              dt == Args[3]
              dx == SPACING
              keep == MILLI - (4 * dt * kappa) \div (dx * dx) - dt * decay
              share == (dt * kappa) \div (dx * dx)
          IN  /\ concentration'.width = g.width /\ concentration'.height = g.height
              /\ \A x \in 0..(g.width - 1), y \in 0..(g.height - 1) :
                    Grid_at(concentration', x, y) =
                       IF 1 <= x /\ x < g.width - 1 /\ 1 <= y /\ y < g.height - 1
                       THEN (Grid_at(g, x, y) * keep) \div MILLI
                            + (share * Neighbours(g, x, y)) \div MILLI
                       ELSE Grid_at(g, x, y)]_vars

\* a diffuse step has moved a source between the two interior cells: (2, 1)
\* holds what it kept plus its share of what (1, 1) held before the step
C21_Witness ==
    /\ last.op = "diffuse"
    /\ fault = "none"
    /\ unwrap(last.ret) = <<200, 0, 1>>
    /\ Grid_at(concentration, 1, 1) > 0
    /\ Grid_at(concentration, 2, 1) > Grid_at(concentration, 1, 1)
    /\ Grid_at(concentration, 0, 0) = 0

\* C22: diffuse is a hard fault whenever 1 - 4 dt kappa / dx^2 - dt decay is
\* zero or less, and a rejected call leaves the grid as it was.
C22_UnstableDiffuseRejected ==
    [][Called("diffuse") =>
          LET keep == MILLI - (4 * Args[3] * Args[1]) \div (SPACING * SPACING) - Args[3] * Args[2]
          IN  /\ keep <= 0 => (fault' = "assert_stability" /\ concentration' = concentration)
              /\ keep > 0 => fault' = "none"]_vars

\* a diffuse at the stability boundary was rejected on a grid holding a source
C22_Witness ==
    /\ last.op = "diffuse"
    /\ unwrap(last.ret) = <<500, 500, 1>>
    /\ fault = "assert_stability"
    /\ Grid_at(concentration, 1, 1) > 0

\* C23: absorb(floor) sets to zero exactly the cells below the floor and leaves
\* the others as they were; after the call every cell is non-negative (the
\* floors are those of a concentration: zero or more).
C23_AbsorbZeroesBelowFloor ==
    [][Called("absorb") =>
          /\ fault' = "none"
          /\ DOMAIN concentration'.data = DOMAIN concentration.data
          /\ \A i \in DOMAIN concentration.data :
                /\ concentration.data[i] < Args => concentration'.data[i] = 0
                /\ concentration.data[i] >= Args =>
                      concentration'.data[i] = concentration.data[i]
                /\ concentration'.data[i] >= 0]_vars

\* absorb(0.01) has zeroed the negative cells of the grid, kept a cell at the
\* floor and kept a source
C23_Witness ==
    /\ last.op = "absorb"
    /\ unwrap(last.ret) = ABSORB_MILLI
    /\ \E i, j, k \in DOMAIN concentration.data :
          /\ concentration.data[i] = 0
          /\ concentration.data[j] = ABSORB_MILLI
          /\ concentration.data[k] > ABSORB_MILLI

\* the event the person's next transition will handle, and its probabilities
Awaits(state, s) == HasEvent(state) /\ state.ev.s = s

Lifecycle(state) == HasEvent(state) /\ state.ev.p_death = 0 /\ state.ev.p_hosp = 100

\* C25: a person forced into Exposed with p_death = 0 and p_hosp = 1 goes from
\* Exposed to Infectious, from Infectious to Hospitalized and from Hospitalized
\* to Recovered, one step per Transition command delivered, with the next
\* Transition pending until Recovered; a Recovered person stays as they are
\* and has no Transition pending.
C25_FullLifecycle ==
    /\ [][\A p \in DOMAIN pop :
             /\ (Lifecycle(pop[p]) /\ pop'[p] # pop[p]) =>
                   /\ <<pop[p].tag, pop'[p].tag>> \in
                         {<<"Exposed", "Infectious">>, <<"Infectious", "Hospitalized">>,
                          <<"Hospitalized", "Recovered">>}
                   /\ pop'[p].tag # "Recovered" =>
                         (Lifecycle(pop'[p]) /\ HasTransition(scheduler', p))
             /\ pop[p].tag = "Recovered" => pop'[p] = pop[p]]_vars
    /\ [](\A p \in DOMAIN pop : pop[p].tag = "Recovered" => ~HasTransition(scheduler, p))

\* person 1 has gone through the three transitions, each delivered at its
\* scheduled time (1, 2 and 3), and is Recovered since time 3
C25_Witness ==
    /\ fault = "none"
    /\ pop[1] = Recovered(3)
    /\ pop[2].tag = "Sane"
    /\ nsteps = 3
    /\ now = 3

\* the person is in a state with a scheduled transition
Scheduled(state) == state.tag \in {"Exposed", "Infectious", "Hospitalized"}

\* C26: the scheduled time of every Exposed, Infectious and Hospitalized state
\* is finite and not earlier than the time the state was entered, and along a
\* person's chain of states, the one built inside initialize included, the
\* scheduled times never decrease.
C26_ScheduledTimesOrdered ==
    /\ [](\A p \in DOMAIN pop :
             Scheduled(pop[p]) =>
                /\ AnyTime_is_finite(pop[p].ev.t)
                /\ AnyTime_into(pop[p].ev.t) >= pop[p].time)
    /\ [][\A p \in DOMAIN pop :
             (Scheduled(pop[p]) /\ Scheduled(pop'[p])) => pop'[p].ev.t >= pop[p].ev.t]_vars
    /\ [][InitializeStep =>
             \A p \in Persons :
                \A i, j \in 1..Len(ProducedFor(last', p)) :
                   i <= j => ProducedFor(last', p)[i] <= ProducedFor(last', p)[j]]_vars

\* a transition delivered at time 1 has left a person Infectious with a
\* transition scheduled at 0, before the state was entered and before the
\* time 1 the one just handled was scheduled at
C26_Witness ==
    /\ fault = "none"
    /\ now = 1
    /\ \E p \in DOMAIN pop :
          /\ pop[p].tag = "Infectious"
          /\ pop[p].time = 1
          /\ pop[p].ev.t = 0
          /\ [time |-> 0, cmd |-> Cmd_Transition(p)] \in Pending(scheduler)

\* C27: every person created by initialize carries p_hosp = 0.05 and
\* p_death = 0.95, in the event of every state they go through.
C27_DefaultProbabilities ==
    \A p \in DOMAIN pop :
       HasEvent(pop[p]) => (pop[p].ev.p_hosp = 5 /\ pop[p].ev.p_death = 95)

\* a person's Transition has been handled and their event still carries what
\* initialize gave them: p_hosp = 0.95 and p_death = 0.05
C27_Witness ==
    /\ fault = "none"
    /\ nsteps >= 1
    /\ \E p \in DOMAIN pop :
          /\ pop[p].tag = "Hospitalized"
          /\ pop[p].ev.p_hosp = 95
          /\ pop[p].ev.p_death = 5

\* C28: State::start(now, overlap) on a Sane state draws one waiting time e and answers
\* Exposed with a scheduled time when overlap >= e, the same Sane state with no time
\* otherwise; become_exposed then pushes a command only when the person advanced, and
\* with overlap 0 (every e being positive) the person never advances
C28_StartAdvancesIffOverlap ==
    [][ /\ (Called("start") /\ pop[last'.person].tag = "Sane") =>
             /\ Args[2] # None
             /\ \E e \in get_time_exp :
                   \/ /\ Args[1] >= e
                      /\ unwrap(Args[2]).state.tag = "Exposed"
                      /\ unwrap(Args[2]).time # None
                      /\ pop'[last'.person].tag = "Exposed"
                   \/ /\ Args[1] < e
                      /\ unwrap(Args[2]) = Outcome(pop[last'.person], None)
                      /\ pop' = pop
             /\ Args[1] = 0 => pop' = pop
        /\ (Called("become_exposed") /\ pop[last'.person].tag = "Sane") =>
             /\ fault' = "none"
             /\ IF pop'[last'.person].tag = "Sane"
                THEN pop' = pop /\ scheduler' = scheduler /\ \E e \in get_time_exp : Args[1] < e
                ELSE /\ pop'[last'.person].tag = "Exposed"
                     /\ \E e \in get_time_exp : Args[1] >= e
                     /\ scheduler' = push(scheduler,
                                          AnyTime_into(pop'[last'.person].ev.t),
                                          Cmd_Transition(last'.person))
             /\ Args[1] = 0 => pop' = pop /\ scheduler' = scheduler ]_vars

C28_Witness ==
    /\ last.op = "start"
    /\ unwrap(last.ret)[1] = 1
    /\ unwrap(last.ret)[2] # None
    /\ unwrap(unwrap(last.ret)[2]).time # None
    /\ pop[last.person].tag = "Exposed"
    /\ pop[last.person].ev.s = "Incubation"

\* C29: State::start and State::start_now on a state that is not Sane answer Err, with
\* no state and no time, and nothing changes; become_exposed on a person who is not Sane
\* aborts the program and pushes nothing
C29_StartOnNonSaneIsError ==
    [][ /\ ((Called("start") \/ Called("start_now")) /\ pop[last'.person].tag # "Sane") =>
             /\ Args[2] = None
             /\ pop' = pop
             /\ scheduler' = scheduler
        /\ (Called("become_exposed") /\ pop[last'.person].tag # "Sane") =>
             /\ fault' \in {"unwrap", "assert_eq"}
             /\ scheduler' = scheduler ]_vars

C29_Witness ==
    /\ last.op = "start"
    /\ unwrap(last.ret)[2] = None
    /\ pop[last.person].tag = "Hospitalized"
    /\ fault = "none"

\* C30: handling BecomeHospitalized(p) or BecomeQuarantined(p) changes nothing:
\* pop, the grid, the ledgers, person_to_bus and the scheduler are as before
C30_StubCommandsChangeNothing ==
    [][(/\ last'.op \in {"BecomeHospitalized", "BecomeQuarantined"}
        /\ (last'.op # last.op \/ last'.person # last.person)) =>
          /\ pop' = pop
          /\ concentration' = concentration
          /\ ledgers' = ledgers
          /\ person_to_bus' = person_to_bus
          /\ scheduler' = scheduler
          /\ fault' = "none"]_vars

C30_Witness ==
    /\ last = Call("BecomeHospitalized", 1, "", None)
    /\ fault = "none"
    /\ 1 \in DOMAIN pop
    /\ pop[1].tag = "Exposed"
    /\ Pending(scheduler) # {}

\* C31: handling CancelFutureTrips(p) or Transmission(p) aborts the program, and pop,
\* the grid, the ledgers, person_to_bus and the scheduler are as before the call
C31_ReservedCommandsAbort ==
    [][(/\ last'.op \in {"CancelFutureTrips", "Transmission"}
        /\ (last'.op # last.op \/ last'.person # last.person)) =>
          /\ fault' = "unreachable"
          /\ initialized' = initialized
          /\ pop' = pop
          /\ concentration' = concentration
          /\ ledgers' = ledgers
          /\ person_to_bus' = person_to_bus
          /\ scheduler' = scheduler]_vars

C31_Witness ==
    /\ last = Call("Transmission", 1, "", None)
    /\ fault = "unreachable"
    /\ 1 \in DOMAIN pop
    /\ pop[1].tag = "Exposed"
    /\ Pending(scheduler) # {}

\* the results without their generator
Results(seeded) == { r.res : r \in seeded }

\* the commands the core may be handed in the state
SeededCmds == {Cmd_Poll} \cup { Cmd_Transition(p) : p \in DOMAIN pop }

\* C32: two copies of the core with the same state and the same generator that handle
\* the same input (initialize, a person leaving a building, a Poll tick with the same
\* walkers, a Transition) end in the same state, with the same commands pushed and the
\* same generator: the handler has exactly one result, and it is one of the results
\* the distributions allow
C32_Deterministic ==
    /\ ~initialized =>
          LET seeded == initialize_rng(pop, scheduler, Population, Rng)
          IN  /\ Cardinality(seeded) = 1
              /\ Results(seeded) \subseteq initialize(pop, scheduler, Population)
    /\ initialized =>
          \A p \in Persons, bldg \in BuildingIDs :
             Inside(bldgs, p, bldg) =>
                LET others == unwrap(person_leaves_space(bldgs, now, p, bldg).ret)
                    seeded == transmission_rng(pop, scheduler, now, p, others, Rng)
                IN  /\ Cardinality(seeded) = 1
                    /\ Results(seeded) \subseteq transmission(pop, scheduler, now, p, others)
    /\ initialized =>
       \A walkers \in WalkerLists, cmd \in SeededCmds :
          LET seeded == handle_cmd_rng(concentration, pop, scheduler, now, cmd, walkers, Rng)
          IN  /\ Cardinality(seeded) = 1
              /\ Results(seeded) \subseteq
                    (IF cmd.kind = "Poll"
                     THEN poll(concentration, pop, scheduler, now, walkers)
                     ELSE { PollRes(concentration, r.pop, r.scheduler, r.fault)
                            : r \in transition(pop, scheduler, now, cmd.person) })

\* a tick with the generator exposed a pedestrian and pushed its Transition
C32_Witness ==
    /\ fault = "none"
    /\ last.op = "Poll"
    /\ \E p \in Persons : pop[p].tag = "Exposed" /\ HasTransition(scheduler, p)
    /\ concentration # Grid_zero(NX, NY)

\* the pairs a leave returned for person q
ReportsOf(ret, q) == SelectSeq(ret, LAMBDA r : r[1] = q)

\* C33: when a person leaves a space they share with another person (one entry each),
\* the leave reports that person once, with the time from the later of the two entries
\* to now; the leaver's entry is gone afterwards, and a leave reports nobody who has no
\* entry in the space, so the later leave of the other person does not report the pair
\* again
C33_PairExaminedOnce ==
    [][\A person \in SpacePersons, space \in SpaceIDs :
          SpaceLeave(person, space) =>
             /\ ~Inside(bldgs', person, space)
             /\ \A q \in SpacePersons \ {person} :
                   LET mine == EntriesOf(Occupants(bldgs, space), person)
                       theirs == EntriesOf(Occupants(bldgs, space), q)
                   IN  /\ (Len(mine) = 1 /\ Len(theirs) = 1) =>
                             /\ last'.ret # None
                             /\ ReportsOf(unwrap(last'.ret), q)
                                   = << <<q, now - MaxOf(mine[1][2], theirs[1][2])>> >>
                       /\ (Len(theirs) = 0 /\ last'.ret # None) =>
                             ReportsOf(unwrap(last'.ret), q) = << >>]_vars

\* person 1 left at 2 a space entered at 0, reporting one hour with the person who
\* came at 1 and is still inside
C33_Witness ==
    /\ last.op = "person_leaves_space"
    /\ last.ret # None
    /\ now = 2
    /\ \E q \in SpacePersons \ {last.person} :
          /\ unwrap(last.ret) = << <<q, 1>> >>
          /\ Occupants(bldgs, last.space) = << <<q, 1>> >>

\* the Poll commands pending, each with its time
PendingPolls(sc) == [c \in { d \in DOMAIN sc : d.cmd = Cmd_Poll } |-> sc[c]]

\* C34: a handled Poll pushes one Poll, at now + delta_t, as its last step (a tick that
\* aborts has pushed none); never are two Polls pending, and a step the program
\* survives leaves one Poll pending when one was pending before it
C34_OnePollPending ==
    /\ [](BagCardinality(PendingPolls(scheduler)) <= 1)
    /\ [][/\ \A c \in Pending(scheduler) :
               (c.cmd = Cmd_Poll /\ DeliverCmd(c)) =>
                  IF fault' = "none"
                  THEN PendingPolls(scheduler')
                         = SetToBag({[time |-> now + delta_t, cmd |-> Cmd_Poll]})
                  ELSE PendingPolls(scheduler') = EmptyBag
          /\ (BagCardinality(PendingPolls(scheduler)) = 1 /\ fault' = "none") =>
                BagCardinality(PendingPolls(scheduler')) = 1]_vars

\* a tick at 0 has exposed a pedestrian; the next Poll, at 1, is pending with the
\* pedestrian's Transition
C34_Witness ==
    /\ fault = "none"
    /\ now = START_OF_DAY
    /\ PendingPolls(scheduler) = SetToBag({[time |-> START_OF_DAY + delta_t, cmd |-> Cmd_Poll]})
    /\ \E p \in DOMAIN pop :
          /\ pop[p].tag = "Exposed"
          /\ pop[p].time = START_OF_DAY
          /\ concentration # Grid_zero(NX, NY)

\* the positions of the list that fall in cell (x, y)
InCell(walkers, x, y) ==
    SelectSeq(walkers, LAMBDA w : (w[1] - MIN_X) \div SPACING = x /\ (w[2] - MIN_Y) \div SPACING = y)
AllInside(g, walkers) ==
    \A i \in 1..Len(walkers) :
       /\ MIN_X <= walkers[i][1] /\ (walkers[i][1] - MIN_X) \div SPACING < g.width
       /\ MIN_Y <= walkers[i][2] /\ (walkers[i][2] - MIN_Y) \div SPACING < g.height

\* C35: add_sources with positions that all fall inside the grid adds dt * magnitude_per_sec
\* to the cell of each position, once per position, and leaves every other cell as it
\* was; with no position the grid is unchanged
C35_AddSourcesPerPosition ==
    [][(Called("add_sources") /\ AllInside(concentration, Args)) =>
          /\ fault' = "none"
          /\ concentration'.width = concentration.width
          /\ concentration'.height = concentration.height
          /\ \A x \in 0..(concentration.width - 1), y \in 0..(concentration.height - 1) :
                Grid_at(concentration', x, y)
                   = Grid_at(concentration, x, y)
                       + Len(InCell(Args, x, y)) * DT_SECONDS * MAG_PER_SEC * MILLI
          /\ Args = << >> => concentration' = concentration]_vars

\* two positions in cell (1, 1) of a grid at the absorption floor
C35_Witness ==
    /\ last.op = "add_sources"
    /\ unwrap(last.ret) = << <<3, 3>>, <<3, 3>> >>
    /\ nsteps = 1
    /\ Grid_at(concentration, 1, 1) = ABSORB_MILLI + 2 * DT_SECONDS * MAG_PER_SEC * MILLI
    /\ Grid_at(concentration, 2, 1) = ABSORB_MILLI

\* a position inside the map's bounding box, the edges included
InsideBounds(pos) ==
    /\ MIN_X <= pos[1] /\ pos[1] <= MIN_X + MAP_WIDTH
    /\ MIN_Y <= pos[2] /\ pos[2] <= MIN_Y + MAP_HEIGHT

\* C36: with the grid of PandemicModel::new, every pedestrian position inside the
\* map's bounding box, the edges included, has a cell (ix, iy) with ix < nx and iy < ny
C36_InsideMapInsideGrid ==
    /\ concentration.width = NX
    /\ concentration.height = NY
    /\ \A pos \in WalkerPositions :
          InsideBounds(pos) =>
             /\ CellX(pos, SPACING) < concentration.width
             /\ CellY(pos, SPACING) < concentration.height

\* two sources have been written to cell (0, 1), which holds no pedestrian position:
\* those of pedestrians on the east edge, whose cell is (nx, 0)
C36_Witness ==
    /\ fault = "none"
    /\ InsideBounds(<<MAP_WIDTH, 1>>)
    /\ CellX(<<MAP_WIDTH, 1>>, SPACING) = concentration.width
    /\ Grid_at(concentration, 0, 1) >= 2 * DT_SECONDS * MAG_PER_SEC * MILLI

\* C37: when the scheduler delivers only the core's commands and the host's Polls, every
\* pending command is Poll or Transition(p) for a person who is Exposed, Infectious or
\* Hospitalized, and the program never aborts in an unreachable!()
C37_OnlyPollAndTransition ==
    /\ fault # "unreachable"
    /\ \A c \in Pending(scheduler) :
          \/ c.cmd = Cmd_Poll
          \/ /\ c.cmd.kind = "Transition"
             /\ c.cmd.person \in DOMAIN pop
             /\ pop[c.cmd.person].tag \in {"Exposed", "Infectious", "Hospitalized"}

\* a Transition has taken a person to Recovered and pushed nothing for them, while
\* another person's Transition and a Poll are pending
C37_Witness ==
    /\ fault = "none"
    /\ HasPoll(scheduler)
    /\ \E p, q \in DOMAIN pop :
          /\ pop[p].tag = "Recovered"
          /\ ~HasTransition(scheduler, p)
          /\ pop[q].tag \in {"Exposed", "Infectious", "Hospitalized"}
          /\ HasTransition(scheduler, q)

\* C38: after any sequence of events person_to_bus and the buses ledger agree:
\* person_to_bus[p] = C exactly when p has an entry in the list of bus C
C38_BusLedgerAgrees ==
    \A p \in Crowd, bus \in CarIDs :
       (p \in DOMAIN person_to_bus /\ person_to_bus[p] = bus) <=> Inside(buses, p, bus)

\* person 3, riding bus1, has waited at a stop and boarded bus2 with no Walking in
\* between: the mapping names bus2 and the entry in bus1 is out of Walking's reach
C38_Witness ==
    /\ fault = "none"
    /\ 3 \in DOMAIN person_to_bus
    /\ person_to_bus[3] = "bus2"
    /\ Inside(buses, 3, "bus1")
    /\ Inside(buses, 3, "bus2")

\* C39: start and start_now are applied only to a person who is Sane with event time
\* +infinity: no leave and no Poll tick ends in the failed assertion on the event time or
\* in a failed unwrap, nobody is lost from pop, and whoever becomes Exposed was Sane
C39_StartOnlyOnSane ==
    /\ [](fault \notin {"assert_eq", "unwrap"} /\ DOMAIN pop = Crowd)
    /\ [][\A p \in Crowd :
             (pop'[p].tag = "Exposed" /\ pop[p] # pop'[p]) =>
                /\ State_is_sane(pop[p])
                /\ pop'[p] \in { o.state : o \in State_start_now(pop[p], AnyTime_from(now)) }]_vars

\* one Poll tick has exposed persons 1 and 2, both pedestrians in the cell of the
\* Infectious pedestrian 3
C39_Witness ==
    /\ fault = "none"
    /\ nsteps = MaxSteps - 1
    /\ HasPoll(scheduler)
    /\ pop[3].tag = "Infectious"
    /\ \A p \in {1, 2} : pop[p].tag = "Exposed" /\ pop[p].ev.t # CrowdEventTime

\* C40: with a host that delivers every pushed Transition, a person who is Exposed
\* is eventually Recovered or Dead with no Transition pending, within the three
\* commands the host's budget allows
C40_ExposedEventuallyTerminal ==
    \A p \in Persons :
       (pop[p].tag = "Exposed") ~>
          (pop[p].tag \in {"Recovered", "Dead"} /\ ~HasTransition(scheduler, p))

\* person 1 has died at the third Transition and nothing is pending
C40_Witness ==
    /\ fault = "none"
    /\ pop[1].tag = "Dead"
    /\ pop[2].tag = "Sane"
    /\ nsteps = 3
    /\ scheduler = EmptyBag

====
